---- MODULE Spec2Model ----
(***************************************************************************)
(* A state-machine model of the unit-test engines of this repository:      *)
(*   cute.h   (src/Source/cute.h)    - the Cute_* engine                   *)
(*   cutest.h (src/include/cutest.h) - the older test_*__ engine           *)
(* One behaviour is one run of a test program built with one of the two    *)
(* headers on a Unix platform: main() reads the command line, selects the  *)
(* tests, runs each selected test (directly or in a forked child) and      *)
(* returns the exit status.                                                *)
(***************************************************************************)
EXTENDS Integers, Sequences, FiniteSets, TLC

(***************************************************************************)
(* Bounds of the model.                                                    *)
(***************************************************************************)
MaxTests == 3      \* registry sizes 1..MaxTests
MaxArgs  == 2      \* command-line arguments after argv[0]
MaxOps   == 2      \* conditions checked by one test body

(***************************************************************************)
(* Strings are sequences of characters.  Names are the test names a        *)
(* registry is built from, Patterns what the user may type.                *)
(***************************************************************************)
Names    == { <<"a">>, <<"a", "_", "b">>, <<"a", "b">> }
Patterns == Names \cup { <<"b">>, <<"c">> }

Registries ==
  { r \in UNION { [1..n -> Names] : n \in 1..MaxTests } :
      \A x, y \in DOMAIN r : x # y => r[x] # r[y] }

VARIABLES
  engine,        \* "cute" or "cutest": which header the program is built with
  registry,      \* CUTE_LIST / TEST_LIST: the test names, in registration order
  pc,            \* position of the (single) thread of control
  argc,          \* number of command-line arguments consumed so far
  patterns,      \* the non-option arguments consumed so far, in order
  i,             \* main()'s loop variable (1-based index)
  parent,        \* per-process state of the test runner: the globals a test
                 \* touches and the local `failed` of Cute_RunUnit/test_run__
  child,         \* <<>> or <<the same state of the forked child>>
  inChild,       \* TRUE while control is in the child (parent is in waitpid)
  exit_code,     \* the local `int exit_code` of Cute_RunUnit / test_run__
  child_status,  \* the wait status the child of the unit in progress (or of
                 \* the last unit) ended with; NoStatus: no child has ended
  sigchld,       \* the disposition of SIGCHLD the program was started with
                 \* (it is kept across exec, and the runner never sets it)
  exit_status,   \* -1 while running, else the exit status of the runner
  \* cute.h globals
  Cute_count, Cute_noexec, Cute_mode_skip, Cute_data_test,
  Cute_stat_units_run, Cute_stat_units_failed,
  Cute_level_verbose, Cute_tap, Cute_index_worker, index,
  forced_noexec, \* Cute_noexec as Cute_ReadCmdline left it (-1: not forced)
  tracer_present,\* TRUE iff main() asked for a debugger/tracer and found one
  \* cutest.h globals and main() locals
  tests, test_no_exec__, test_skip_mode__,
  test_stat_run_units__, test_stat_failed_units__, test_verbose_level__,
  \* history variables (not read by any action guard)
  execLog,       \* registry indices handed to Cute_RunUnit / test_run__
  trace,         \* value (0/1) of each condition recorded by the body of the
                 \* unit in progress
  how,           \* how the body of the current (or last) unit ended
  ret,           \* value returned by the last Cute_Check / test_check__ call
                 \* of the unit in progress (-1: none yet)
  diag,          \* what the last CUTE_MSG / CUTE_DUMP since the last condition
                 \* did ("none": no such call)
  notPassed,     \* number of finished units whose body did not return with
                 \* every recorded condition true
  caseAbort,     \* 1: the unit in progress was ended by a fatal assertion
                 \* inside a named case; 2: the previous unit was; else 0
  \* output
  Cute_output_xml,\* 0 is NULL, else the file --xml-output opened
  out,           \* the TAP lines that have reached stdout so far, in order
  stdout_buf,    \* the TAP lines printed by the process in control that are
                 \* still in its stdio buffer, in order
  stdout_mode,   \* how stdio buffers stdout: "unset" outside TAP mode (no
                 \* line is recorded), else "_IOLBF" (stdout is a terminal)
                 \* or "_IOFBF" (a file or a pipe)
  xml,           \* << >>, or << the XML report main() wrote >>
  \* one call of Cute_ConfirmNameContainsWord(), statement by statement
  scan,          \* its arguments and locals, and where control is in it
  \* history of the unit in progress (or of the last one)
  events         \* the calls and assignments of Cute_RunUnit, Cute_RunTest
                 \* and Cute_Abort executed for it, in order

vars == << engine, registry, pc, argc, patterns, i, parent, child,
           inChild, exit_code, child_status, sigchld, exit_status,
           Cute_count, Cute_noexec, Cute_mode_skip, Cute_data_test,
           Cute_stat_units_run, Cute_stat_units_failed,
           Cute_level_verbose, Cute_tap, Cute_index_worker, index,
           tests, test_no_exec__, test_skip_mode__,
           test_stat_run_units__, test_stat_failed_units__,
           test_verbose_level__,
           forced_noexec, tracer_present,
           execLog, trace, how, ret, diag, notPassed, caseAbort,
           Cute_output_xml, out, stdout_buf, stdout_mode, xml, scan, events >>

cuteVars   == << Cute_count, Cute_noexec, Cute_mode_skip, Cute_data_test,
                Cute_stat_units_run, Cute_stat_units_failed,
                Cute_level_verbose, Cute_tap, Cute_index_worker, index,
                forced_noexec, tracer_present, Cute_output_xml >>
cutestVars == << tests, test_no_exec__, test_skip_mode__,
                test_stat_run_units__, test_stat_failed_units__,
                test_verbose_level__ >>

Cute_size_list == Len(registry)

(***************************************************************************)
(* C string functions on sequences of characters.  Position p of a string  *)
(* s is 1..Len(s); position Len(s)+1 holds the terminator NUL.             *)
(***************************************************************************)
NUL == "\\0"

CharAt(s, p) == IF p = Len(s) + 1 THEN NUL ELSE s[p]

\* strcmp(a, b) == 0
strcmp0(a, b) == a = b

\* does `needle` occur in `hay` at position p
OccursAt(hay, p, needle) ==
  /\ p >= 1
  /\ p + Len(needle) - 1 <= Len(hay)
  /\ \A k \in 1..Len(needle) : hay[p + k - 1] = needle[k]

\* strstr(hay + (from-1), needle): position of the first occurrence at or
\* after `from`, 0 for NULL
strstr(hay, from, needle) ==
  LET hits == { p \in from..(Len(hay) + 1) : OccursAt(hay, p, needle) }
  IN  IF hits = {} THEN 0
      ELSE CHOOSE p \in hits : \A q \in hits : p <= q

(***************************************************************************)
(* Name Resolver (cute.h).                                                 *)
(***************************************************************************)
word_delim == { " ", "\t", "-", "_", "/", ".", ",", ":", ";" }

\* the while loop of Cute_ConfirmNameContainsWord, entered with `substr`
\* (for a non-empty pattern, as all of Patterns are: the scan never leaves
\* the string; Word_strstr .. Word_next_past follow any pattern)
RECURSIVE WordScan(_, _, _)
WordScan(name, pattern, substr) ==
  IF substr = 0 THEN 0
  ELSE LET pattern_len == Len(pattern)
           starts_on_word_boundary ==
             substr = 1 \/ CharAt(name, substr - 1) \in word_delim
           ends_on_word_boundary ==
             \/ CharAt(name, substr + pattern_len) = NUL
             \/ CharAt(name, substr + pattern_len) \in word_delim
       IN  IF starts_on_word_boundary /\ ends_on_word_boundary THEN 1
           ELSE WordScan(name, pattern, strstr(name, substr + 1, pattern))

Cute_ConfirmNameContainsWord(name, pattern) ==
  WordScan(name, pattern, strstr(name, 1, pattern))

(***************************************************************************)
(* Test data flags (struct Cute_TestData.flags, a bit mask).               *)
(***************************************************************************)
CUTE_FLAG_RUN     == 1
CUTE_FLAG_SUCCESS == 2
CUTE_FLAG_FAILURE == 4

\* flags & bit
HasFlag(flags, bit) == (flags \div bit) % 2 = 1
\* flags | bit
OrFlag(flags, bit) == IF HasFlag(flags, bit) THEN flags ELSE flags + bit

\* mutant: no early return for a test that is already marked
Cute_Remember_NoGuard(sel, t) ==
  [data  |-> [sel.data EXCEPT ![t] = OrFlag(@, CUTE_FLAG_RUN)],
   count |-> sel.count + 1]

\* Cute_Remember(i) on the selection state sel = [data, count]
Cute_Remember(sel, t) ==
  IF HasFlag(sel.data[t], CUTE_FLAG_RUN) THEN sel
  ELSE [data  |-> [sel.data EXCEPT ![t] = OrFlag(@, CUTE_FLAG_RUN)],
        count |-> sel.count + 1]

\* Cute_Remember applied to the tests of `ts` in ascending order
RECURSIVE RememberAll(_, _)
RememberAll(sel, ts) ==
  IF ts = {} THEN sel
  ELSE LET t == CHOOSE x \in ts : \A y \in ts : x <= y
       IN  RememberAll(Cute_Remember(sel, t), ts \ {t})

\* the tests each tier of Cute_Lookup passes to Cute_Remember
ExactMatches(list, pattern) ==
  LET eq == { t \in DOMAIN list : strcmp0(list[t], pattern) }
  IN  IF eq = {} THEN {} ELSE { CHOOSE t \in eq : \A u \in eq : t <= u }
WordMatches(list, pattern) ==
  { t \in DOMAIN list : Cute_ConfirmNameContainsWord(list[t], pattern) # 0 }
RelaxedMatches(list, pattern) ==
  { t \in DOMAIN list : strstr(list[t], 1, pattern) # 0 }

\* mutant: the tiers do not short-circuit
Cute_Lookup_AllTiers(list, sel, pattern) ==
  LET hit == ExactMatches(list, pattern) \cup WordMatches(list, pattern)
               \cup RelaxedMatches(list, pattern)
  IN  [sel |-> RememberAll(sel, hit), n |-> Cardinality(hit)]

\* mutant: only the relaxed (substring) tier is tried
Cute_Lookup_RelaxedOnly(list, sel, pattern) ==
  LET hit == RelaxedMatches(list, pattern)
  IN  [sel |-> RememberAll(sel, hit), n |-> Cardinality(hit)]

\* Cute_Lookup(pattern): the new selection state and the returned count n
Cute_Lookup(list, sel, pattern) ==
  LET exact   == ExactMatches(list, pattern)
      word    == WordMatches(list, pattern)
      relaxed == RelaxedMatches(list, pattern)
      hit     == IF exact # {} THEN exact
                 ELSE IF word # {} THEN word
                 ELSE relaxed
  IN  [sel |-> RememberAll(sel, hit), n |-> Cardinality(hit)]

\* test_by_name__(name) of cutest.h: index of the first test with that name,
\* 0 for NULL
test_by_name__(list, name) ==
  LET eq == { t \in DOMAIN list : strcmp0(list[t], name) }
  IN  IF eq = {} THEN 0 ELSE CHOOSE t \in eq : \A u \in eq : t <= u

(***************************************************************************)
(* Per-process state.  fork() copies it; the child works on its copy.      *)
(***************************************************************************)
CuteGlobals ==
  [ Cute_currenttest        |-> 0,    \* 0 is NULL, else the registry index
    Cute_currentindex       |-> 0,
    Cute_testfailures       |-> 0,
    Cute_test_alreadylogged |-> 0,
    Cute_failedcond         |-> 0,
    Cute_casename           |-> "",
    Cute_case_alreadylogged |-> 0,
    Cute_wasaborted         |-> 0,
    Cute_abort_has_jmpbuf   |-> 0,
    Cute_worker             |-> 0,
    failed                  |-> 1 ]

CutestGlobals ==
  [ test_current_unit__           |-> 0,
    test_current_failures__       |-> 0,
    test_current_already_logged__ |-> 0,
    failed                        |-> 1 ]

\* the process control is in, and its update
Me == IF inChild THEN child[1] ELSE parent
SetMe(r) ==
  IF inChild THEN child' = <<r>> /\ parent' = parent
             ELSE parent' = r /\ child' = child

(***************************************************************************)
(* Wait statuses (what waitpid() stores into exit_code).                   *)
(***************************************************************************)
\* the local exit_code before the unit's waitpid() is called
NoStatus        == [kind |-> "none"]
Exited(code)    == [kind |-> "exited", code |-> code]
Signaled(sig)   == [kind |-> "signaled", sig |-> sig]
WIFEXITED(w)    == w.kind = "exited"
WEXITSTATUS(w)  == w.code
WIFSIGNALED(w)  == w.kind = "signaled"
WTERMSIG(w)     == w.sig

\* the values the uninitialised local exit_code may be read as when
\* waitpid() has stored nothing, as the analysis tells them apart: exit
\* codes 0, 1 and another, a signal, and neither WIFEXITED nor WIFSIGNALED
Indeterminate ==
  { Exited(0), Exited(1), Exited(3), Signaled("signal 32"),
    [kind |-> "stopped"] }
\* exit_code after waitpid(pid, &exit_code, 0) for a child that ended with
\* status w.  When SIGCHLD is ignored the call blocks until the child has
\* ended, then fails (-1, errno ECHILD) and stores nothing into exit_code;
\* its result is not looked at
waitpid(w, disposition) ==
  IF disposition = "SIG_IGN" THEN Indeterminate ELSE { w }

\* exit codes a test body may pass to exit() itself: any.  0 and 1 are the
\* codes of a passed and of a failed test (and of main()), 2 is the code of
\* a usage error, 3 stands for the codes the engine does not use
BodyExitCodes == { 0, 1, 2, 3 }

(***************************************************************************)
(* Condition Recorder and Abort Channel (cute.h).                          *)
(***************************************************************************)
\* Cute_Check(cond, ...): the new process state (return value: CheckResult)
Cute_Check(g, cond) ==
  LET verbose_level == IF cond # 0 THEN 3 ELSE 2
      g1 == IF cond # 0 THEN g
            ELSE [g EXCEPT !.Cute_testfailures = @ + 1,
                           !.Cute_test_alreadylogged = @ + 1]
      g2 == IF Cute_level_verbose >= verbose_level
            THEN IF g1.Cute_case_alreadylogged = 0 /\ g1.Cute_casename # ""
                 THEN [g1 EXCEPT !.Cute_test_alreadylogged = @ + 2,
                                 !.Cute_case_alreadylogged = @ + 1]
                 ELSE [g1 EXCEPT !.Cute_test_alreadylogged = @ + 1]
            ELSE g1
  IN  [g2 EXCEPT !.Cute_failedcond = IF cond = 0 THEN 1 ELSE 0]

\* mutant: Cute_Check returns Cute_failedcond itself, not its negation
CheckResult_NotNegated(g) == IF g.Cute_failedcond # 0 THEN 1 ELSE 0

\* the formats a body passes to CUTE_CASE_FORMAT in the model: NULL, and a
\* format without conversions, which names the case "case"
CaseNames == { "NULL", "case" }

\* mutant: Cute_Case(NULL) leaves the name of the case in place
Cute_Case_KeepsName(g, fmt) ==
  IF Cute_level_verbose < 2 \/ fmt = "NULL" THEN g
  ELSE [g EXCEPT !.Cute_casename = fmt]

\* Cute_Case(fmt, ...): the new process state
Cute_Case(g, fmt) ==
  IF Cute_level_verbose < 2 THEN g
  ELSE LET g1 == IF g.Cute_casename # ""
                 THEN [g EXCEPT !.Cute_case_alreadylogged = 0,
                                !.Cute_casename = ""]
                 ELSE g
       IN  IF fmt = "NULL" THEN g1
           ELSE LET g2 == [g1 EXCEPT !.Cute_casename = fmt]
                IN  IF Cute_level_verbose >= 3
                    THEN [g2 EXCEPT !.Cute_test_alreadylogged = @ + 1,
                                    !.Cute_case_alreadylogged = @ + 1]
                    ELSE g2

\* the value Cute_Check returns: !Cute_failedcond
CheckResult(g) == IF g.Cute_failedcond # 0 THEN 0 ELSE 1

\* Cute_Message(fmt, ...): TRUE iff the call prints anything.  empty: the
\* message formats to the empty string; then the loop of lines 722-729
\* finds no line and the guard of line 730 is false
Cute_Message(g, empty) ==
  IF Cute_level_verbose < 2 THEN FALSE
  ELSE IF g.Cute_currenttest = 0 \/ g.Cute_failedcond = 0 THEN FALSE
  ELSE ~empty

\* Cute_Dump(title, addr, size): TRUE iff the call prints anything
Cute_Dump(g) ==
  IF Cute_level_verbose < 2 THEN FALSE
  ELSE IF g.Cute_currenttest = 0 \/ g.Cute_failedcond = 0 THEN FALSE
  ELSE TRUE

(***************************************************************************)
(* Reporter (cute.h): the lines of the TAP stream.                         *)
(***************************************************************************)
\* a result line "<str> <n> - <name of test>" and the plan line "1..<n>"
TapLine(str, n, test) == [str |-> str, n |-> n, test |-> test]
TapPlan(n)            == [str |-> "1..", n |-> n, test |-> 0]

\* stdout of the process in control: what has reached the file, and what is
\* still in the process's buffer
Stdout == [out |-> out, buf |-> stdout_buf]
SetStdout(s) == out' = s.out /\ stdout_buf' = s.buf
\* printf() of complete lines, then of text that is no line of the TAP
\* stream.  A line stays in the buffer unless stdout is line buffered;
\* stdio writes the buffer out when BUFSIZ bytes are in it.  fills: with the
\* text the bytes in the buffer reach BUFSIZ (a text of at least BUFSIZ
\* bytes does so alone, shorter texts do so together; the lines alone do not)
printf(s, mode, lines, fills) ==
  LET s1 == IF lines = << >> THEN s
            ELSE IF mode = "_IOLBF"
                 THEN [out |-> s.out \o s.buf \o lines, buf |-> << >>]
                 ELSE [s EXCEPT !.buf = @ \o lines]
  IN  IF fills THEN [out |-> s1.out \o s1.buf, buf |-> << >>] ELSE s1
\* fflush(stdout); exit() does the same
fflush(s) == [out |-> s.out \o s.buf, buf |-> << >>]
\* the process is killed by a signal (abort() raises SIGABRT and, in glibc,
\* does not flush): what is in its buffer is lost
Killed(s) == [s EXCEPT !.buf = << >>]

\* Cute_FinishTestLine(result) in process state g: the lines it adds to the
\* TAP stream (outside TAP mode it prints "[ OK ]" / "[ FAILED ]")
Cute_FinishTestLine(g, result) ==
  IF Cute_tap # 0
  THEN << TapLine(IF result = 0 THEN "ok" ELSE "not ok",
                  g.Cute_currentindex + 1, g.Cute_currenttest) >>
  ELSE << >>

\* Cute_Check, lines 619-620: the first logged failure closes the test line
Cute_Check_Output(g, cond) ==
  IF cond = 0 /\ g.Cute_test_alreadylogged = 0 /\ g.Cute_currenttest # 0
  THEN Cute_FinishTestLine(g, -1)
  ELSE << >>

\* Cute_RunTest, lines 982-1008: what it prints after the body
Cute_RunTest_Output(g) ==
  IF Cute_level_verbose >= 3 THEN << >>
  ELSE IF Cute_level_verbose >= 1 /\ g.Cute_testfailures = 0
       THEN Cute_FinishTestLine(g, 0)
       ELSE << >>

\* main(), lines 1669-1681: the plan line
Cute_main_Plan(g, count) ==
  IF Cute_tap # 0 /\ g.Cute_worker = 0 THEN << TapPlan(count) >> ELSE << >>

(***************************************************************************)
(* The statements executed for one unit, as entries of `events`.           *)
(***************************************************************************)
\* `events` is a history variable: it is kept in the specifications whose
\* properties read it (SpecCase, SpecLive) and is the constant NoLog in the
\* others
NoLog == << "not kept" >>
\* the log after a unit has begun with entries es, and after more entries
LogFrom(es) == IF events = NoLog THEN events ELSE es
Log(es)     == IF events = NoLog THEN events ELSE events \o es

\* Cute_RunUnit, line 1030: Cute_GetTimerTime(&start)
Cute_RunUnit_Begin_Events == << "start" >>

\* mutant: the hook is called after the timer was started
Cute_RunTest_Entry_Events_HookLast(g) ==
  << "reset", "Cute_BeginTestLine" >>
  \o (IF g.Cute_worker = 0 THEN << "has_jmpbuf = 1" >> ELSE << >>)
  \o << "Cute_start_timer", "Cute_Initialize", "func" >>

\* Cute_RunTest, lines 954-978: the reset of the globals, the hook, the
\* start of the test line, the jump buffer, Cute_GetTimerTime(
\* &Cute_start_timer), and the call of the test function
Cute_RunTest_Entry_Events(g) ==
  << "reset", "Cute_Initialize", "Cute_BeginTestLine" >>
  \o (IF g.Cute_worker = 0 THEN << "has_jmpbuf = 1" >> ELSE << >>)
  \o << "Cute_start_timer", "func" >>

\* Cute_Check, lines 619-620: Cute_FinishTestLine(-1)
Cute_Check_Events(g, cond) ==
  IF cond = 0 /\ g.Cute_test_alreadylogged = 0 /\ g.Cute_currenttest # 0
  THEN << "Cute_FinishTestLine" >>
  ELSE << >>

\* mutant: abort() without the clean-up hook
Cute_Abort_Events_NoFini(g) ==
  IF g.Cute_abort_has_jmpbuf # 0 THEN << "longjmp" >> ELSE << "abort" >>

\* Cute_Abort, lines 819-825
Cute_Abort_Events(g) ==
  IF g.Cute_abort_has_jmpbuf # 0 THEN << "longjmp" >>
  ELSE (IF g.Cute_currenttest # 0 THEN << "Cute_Uninitialize" >> ELSE << >>)
       \o << "abort" >>

\* Cute_RunTest, lines 980-1013: after the test function, or after longjmp
Cute_RunTest_Exit_Events(g) ==
  << "has_jmpbuf = 0", "Cute_end_timer" >>
  \o (IF Cute_level_verbose >= 3 THEN << "verdict" >>
      ELSE IF Cute_level_verbose >= 1 /\ g.Cute_testfailures = 0
           THEN << "Cute_FinishTestLine" >>
           ELSE << >>)
  \o << "Cute_Uninitialize", "Cute_Case(NULL)" >>

\* Cute_RunUnit, lines 1127-1137: Cute_GetTimerTime(&end), the counters,
\* the record
Cute_RunUnit_End_Events ==
  << "end", "Cute_stat_units_run++", "Cute_SetSuccess", "Cute_SetDuration" >>

\* main(), lines 1717-1741: the XML report
XmlReport ==
  [ tests    |-> Cute_size_list,
    errors   |-> Cute_stat_units_failed,
    failures |-> Cute_stat_units_failed,
    skip     |-> Cute_size_list - Cute_stat_units_run,
    testcase |-> [ t \in 1..Cute_size_list |->
                   [ name    |-> registry[t],
                     failure |-> HasFlag(Cute_data_test[t], CUTE_FLAG_FAILURE),
                     skipped |->
                       /\ ~HasFlag(Cute_data_test[t], CUTE_FLAG_FAILURE)
                       /\ ~HasFlag(Cute_data_test[t], CUTE_FLAG_SUCCESS) ] ] ]

\* Cute_Abort(): what the call does to the control flow
Cute_Abort(g) ==
  IF g.Cute_abort_has_jmpbuf # 0 THEN "longjmp" ELSE "abort"

\* Cute_RunTest, lines 954-974: reset, Cute_BeginTestLine, arm the jump buffer
Cute_RunTest_Entry(g, test, idx) ==
  LET g1 == [g EXCEPT !.Cute_wasaborted = 0,
                      !.Cute_currenttest = test,
                      !.Cute_currentindex = idx,
                      !.Cute_testfailures = 0,
                      !.Cute_test_alreadylogged = 0,
                      !.Cute_failedcond = 0]
      g2 == IF Cute_tap # 0 THEN g1
            ELSE IF Cute_level_verbose >= 3
                 THEN [g1 EXCEPT !.Cute_test_alreadylogged = @ + 1]
            ELSE IF Cute_level_verbose >= 1 THEN g1
            ELSE [g1 EXCEPT !.Cute_test_alreadylogged = 1]
  IN  IF g2.Cute_worker = 0
      THEN [g2 EXCEPT !.Cute_abort_has_jmpbuf = 1]
      ELSE g2

\* Cute_RunTest, line 1010: the status it returns
Cute_RunTest_Status(g) == IF g.Cute_testfailures = 0 THEN 0 ELSE -1

\* Cute_RunTest, lines 984-1003: the verdict printed at verbose level 3
Cute_RunTest_Verdict(g) ==
  IF g.Cute_testfailures = 0 THEN "SUCCESS"
  ELSE IF g.Cute_wasaborted = 0 THEN "FAILED"
  ELSE "Aborted"

\* Cute_RunUnit, lines 1055-1078: `failed` after the parent has analysed the
\* child's wait status
Cute_RunUnit_Analyze(failedIn, w) ==
  IF WIFEXITED(w)
  THEN CASE WEXITSTATUS(w) = 0 -> 0
         [] WEXITSTATUS(w) = 1 -> failedIn
         [] OTHER              -> failedIn
  ELSE IF WIFSIGNALED(w) THEN failedIn
  ELSE failedIn

\* Cute_RunUnit, lines 1055-1078: the error the parent reports about the
\* child's end ("none": nothing is reported)
Cute_RunUnit_Error(w) ==
  IF WIFEXITED(w)
  THEN CASE WEXITSTATUS(w) = 0 -> "none"
         [] WEXITSTATUS(w) = 1 -> "none"
         [] OTHER              -> "Unexpected exit code"
  ELSE IF WIFSIGNALED(w) THEN "Test interrupted by signal"
  ELSE "Test ended in an unexpected way"

\* mutant: the success flag is set first, the failure flag added on failure
Cute_SetSuccess_Both(data, t, success) ==
  [data EXCEPT ![t] =
     IF success # 0 THEN OrFlag(@, CUTE_FLAG_SUCCESS)
     ELSE OrFlag(OrFlag(@, CUTE_FLAG_SUCCESS), CUTE_FLAG_FAILURE)]

\* Cute_SetSuccess(i, success)
Cute_SetSuccess(data, t, success) ==
  [data EXCEPT ![t] = OrFlag(@, IF success # 0 THEN CUTE_FLAG_SUCCESS
                                               ELSE CUTE_FLAG_FAILURE)]

(***************************************************************************)
(* Run Coordinator helpers (cute.h main).                                  *)
(***************************************************************************)
\* mutant: the default "run everything" is forgotten
DefaultSelection_Forgotten(sel, n) == sel

\* lines 1636-1640: by default, run all tests
DefaultSelection(sel, n) ==
  IF sel.count = 0 THEN RememberAll(sel, 1..n) ELSE sel

\* mutant: the guess overrides a forced policy
GuessNoexec_Always(noexec, count, tracer) ==
  IF count <= 1 THEN 1 ELSE IF tracer THEN 1 ELSE 0

\* lines 1643-1667: guess whether to run tests as child processes
GuessNoexec(noexec, count, tracer) ==
  IF noexec < 0
  THEN IF count <= 1 THEN 1 ELSE IF tracer THEN 1 ELSE 0
  ELSE noexec

\* lines 1643-1665: does main() look for a debugger, tracer or memory checker
TracerAsked(noexec, count) == noexec < 0 /\ count > 1

\* mutant: skip mode is not honoured
ShouldRun_NoSkip(flags, mode_skip) == HasFlag(flags, CUTE_FLAG_RUN)

\* lines 1685-1687: does the loop run the test with these flags
ShouldRun(flags, mode_skip) ==
  LET run == HasFlag(flags, CUTE_FLAG_RUN)
  IN  IF mode_skip # 0 THEN ~run ELSE run

\* mutant: the loop walks the registry backwards
LoopEntry_Backwards(k) == Cute_size_list + 1 - k

\* line 1684/1689: the registry entry the loop visits in iteration k
LoopEntry(k) == k

(***************************************************************************)
(* Initial state: the program has been loaded, main() has counted the      *)
(* tests and allocated the zeroed test data.                               *)
(***************************************************************************)
\* no call of Cute_ConfirmNameContainsWord() is being followed
NoScan == [ name |-> << >>, pattern |-> << >>, pc |-> "none",
            substr |-> 0, ret |-> -1, past |-> FALSE ]

\* the runner's state when main() is entered, for a given engine and registry
RunInit ==
  /\ pc = "cmdline"
  /\ argc = 0
  /\ patterns = << >>
  /\ i = 0
  /\ parent = IF engine = "cute" THEN CuteGlobals ELSE CutestGlobals
  /\ child = << >>
  /\ inChild = FALSE
  /\ exit_code = NoStatus
  /\ child_status = NoStatus
  /\ exit_status = -1
  /\ Cute_count = 0
  /\ Cute_noexec = -1
  /\ Cute_mode_skip = 0
  /\ Cute_data_test = [t \in 1..Len(registry) |-> 0]
  /\ Cute_stat_units_run = 0
  /\ Cute_stat_units_failed = 0
  /\ Cute_level_verbose = 2
  /\ Cute_tap = 0
  /\ Cute_index_worker = 0
  /\ index = 0
  /\ tests = << >>
  /\ test_no_exec__ = 0
  /\ test_skip_mode__ = 0
  /\ test_stat_run_units__ = 0
  /\ test_stat_failed_units__ = 0
  /\ test_verbose_level__ = 2
  /\ forced_noexec = -1
  /\ tracer_present = FALSE
  /\ execLog = << >>
  /\ trace = << >>
  /\ how = "none"
  /\ ret = -1
  /\ diag = "none"
  /\ notPassed = 0
  /\ caseAbort = 0
  /\ Cute_output_xml = 0
  /\ out = << >>
  /\ stdout_buf = << >>
  /\ stdout_mode = "unset"
  /\ xml = << >>

Init ==
  /\ engine \in {"cute", "cutest"}
  /\ registry \in Registries
  \* the disposition of SIGCHLD the program is started with
  /\ sigchld \in { "SIG_DFL", "SIG_IGN" }
  /\ RunInit
  /\ scan = NoScan
  /\ events = NoLog

(***************************************************************************)
(* How a process ends.                                                     *)
(***************************************************************************)
\* mutant: the parent does not wait: it goes on to record the test while
\* the child is still there
ChildEnds_NotAwaited(w) ==
  /\ UNCHANGED << exit_code, child_status, sigchld >>
  /\ inChild' = FALSE
  /\ pc' = "record"
  /\ exit_status' = exit_status

\* mutant: the child does not terminate: it goes on in Cute_RunUnit /
\* test_run__ behind the fork
ChildEnds_ReturnsToCaller(w) ==
  /\ UNCHANGED << exit_code, child_status, sigchld >>
  /\ inChild' = TRUE
  /\ pc' = "record"
  /\ exit_status' = exit_status

\* the child terminates with wait status w; the parent's waitpid() returns
\* (Cute_RunUnit line 1054, test_run__ line 283); its result is not checked
ChildEnds(w) ==
  /\ child_status' = w
  /\ exit_code' \in waitpid(w, sigchld)
  /\ UNCHANGED sigchld
  /\ inChild' = FALSE
  /\ pc' = "waitpid"
  /\ exit_status' = exit_status

\* mutant: exit(code) sets the status and returns to its caller
RunnerExits_GoesOn(code) ==
  /\ exit_status' = code
  /\ UNCHANGED << pc, exit_code, child_status, sigchld, inChild >>

\* the runner itself calls exit(code)
RunnerExits(code) ==
  /\ pc' = "exited"
  /\ exit_status' = code
  /\ UNCHANGED << exit_code, child_status, sigchld, inChild >>

\* the runner itself is killed by a signal
RunnerKilled ==
  /\ pc' = "killed"
  /\ UNCHANGED << exit_code, child_status, sigchld, inChild, exit_status >>

\* the process control is in ends: by exit(code) ...
ProcessExits(code) ==
  IF inChild THEN ChildEnds(Exited(code)) ELSE RunnerExits(code)
\* ... or by a signal
ProcessKilled(sig) ==
  IF inChild THEN ChildEnds(Signaled(sig)) ELSE RunnerKilled

(***************************************************************************)
(* cute.h: command line (Cute_CallbackCmdline, one call per argument).     *)
(* The options --time, --no-summary and --color change only what is        *)
(* printed besides the TAP and XML streams.                                *)
(***************************************************************************)
\* case 0: a test name or pattern
Cute_CallbackCmdline_0(arg) ==
  /\ engine = "cute" /\ pc = "cmdline" /\ argc < MaxArgs
  /\ argc' = argc + 1
  /\ patterns' = Append(patterns, arg)
  /\ LET r == Cute_Lookup(registry,
                          [data |-> Cute_data_test, count |-> Cute_count], arg)
     IN  IF r.n = 0
         THEN /\ RunnerExits(2)
              /\ UNCHANGED << Cute_data_test, Cute_count >>
         ELSE /\ Cute_data_test' = r.sel.data
              /\ Cute_count' = r.sel.count
              /\ UNCHANGED << pc, exit_status, exit_code, child_status,
                              sigchld, inChild >>
  /\ UNCHANGED << caseAbort, out, stdout_buf, stdout_mode, xml, scan, events,
                  Cute_output_xml, ret, diag, notPassed, forced_noexec,
                  tracer_present, engine, registry, i, parent, child,
                  Cute_noexec, Cute_mode_skip, Cute_stat_units_run,
                  Cute_stat_units_failed, Cute_level_verbose, Cute_tap,
                  Cute_index_worker, index,
                  cutestVars, execLog, trace, how >>

\* case 's': --skip
Cute_CallbackCmdline_s ==
  /\ engine = "cute" /\ pc = "cmdline" /\ argc < MaxArgs
  /\ argc' = argc + 1
  /\ Cute_mode_skip' = 1
  /\ UNCHANGED << caseAbort, out, stdout_buf, stdout_mode, xml, scan, events,
                  Cute_output_xml, ret, diag, notPassed, forced_noexec,
                  tracer_present, engine, registry, pc, patterns, i, parent,
                  child, inChild, exit_code, child_status, sigchld,
                  exit_status, Cute_count, Cute_noexec, Cute_data_test,
                  Cute_stat_units_run, Cute_stat_units_failed,
                  Cute_level_verbose, Cute_tap,
                  Cute_index_worker, index, cutestVars, execLog,
                  trace, how >>

\* the arguments --exec may carry ("NULL": none given)
ExecArgs == { "NULL", "always", "never", "auto", "bogus" }

\* case 'e': --exec[=WHEN]
Cute_CallbackCmdline_e(arg) ==
  /\ engine = "cute" /\ pc = "cmdline" /\ argc < MaxArgs
  /\ argc' = argc + 1
  /\ IF arg = "NULL" \/ arg = "always"
     THEN Cute_noexec' = 0 /\ UNCHANGED << pc, exit_status >>
     ELSE IF arg = "never"
     THEN Cute_noexec' = 1 /\ UNCHANGED << pc, exit_status >>
     ELSE IF arg = "auto"
     THEN UNCHANGED << Cute_noexec, pc, exit_status >>
     ELSE pc' = "exited" /\ exit_status' = 2 /\ UNCHANGED Cute_noexec
  /\ UNCHANGED << caseAbort, out, stdout_buf, stdout_mode, xml, scan, events,
                  Cute_output_xml, ret, diag, notPassed, forced_noexec,
                  tracer_present, engine, registry, patterns, i, parent, child,
                  inChild, exit_code, child_status, sigchld, Cute_count,
                  Cute_mode_skip, Cute_data_test, Cute_stat_units_run,
                  Cute_stat_units_failed, Cute_level_verbose, Cute_tap,
                  Cute_index_worker, index,
                  cutestVars, execLog, trace, how >>

\* case 'E': --no-exec
Cute_CallbackCmdline_E ==
  /\ engine = "cute" /\ pc = "cmdline" /\ argc < MaxArgs
  /\ argc' = argc + 1
  /\ Cute_noexec' = 1
  /\ UNCHANGED << caseAbort, out, stdout_buf, stdout_mode, xml, scan, events,
                  Cute_output_xml, ret, diag, notPassed, forced_noexec,
                  tracer_present, engine, registry, pc, patterns, i, parent,
                  child, inChild, exit_code, child_status, sigchld,
                  exit_status, Cute_count, Cute_mode_skip, Cute_data_test,
                  Cute_stat_units_run, Cute_stat_units_failed,
                  Cute_level_verbose, Cute_tap,
                  Cute_index_worker, index, cutestVars, execLog,
                  trace, how >>

\* case 'T': --tap
Cute_CallbackCmdline_T ==
  /\ engine = "cute" /\ pc = "cmdline" /\ argc < MaxArgs
  /\ argc' = argc + 1
  /\ Cute_tap' = 1
  /\ UNCHANGED << caseAbort, out, stdout_buf, stdout_mode, xml, scan, events,
                  Cute_output_xml, ret, diag, notPassed, forced_noexec,
                  tracer_present, engine, registry, pc, patterns, i, parent,
                  child, inChild, exit_code, child_status, sigchld,
                  exit_status, Cute_count, Cute_noexec, Cute_mode_skip,
                  Cute_data_test, Cute_stat_units_run, Cute_stat_units_failed,
                  Cute_level_verbose, Cute_index_worker, index, cutestVars,
                  execLog, trace, how >>

\* case 'x': --xml-output=FILE.  opens: does fopen(arg, "w") succeed
Cute_CallbackCmdline_x(opens) ==
  /\ engine = "cute" /\ pc = "cmdline" /\ argc < MaxArgs
  /\ argc' = argc + 1
  /\ IF opens
     THEN /\ Cute_output_xml' = 1
          /\ UNCHANGED << pc, exit_status, exit_code, child_status, sigchld,
                          inChild >>
     ELSE /\ Cute_output_xml' = 0
          /\ RunnerExits(2)
  /\ UNCHANGED << caseAbort, out, stdout_buf, stdout_mode, xml, scan, events,
                  ret, diag, notPassed, forced_noexec, tracer_present, engine,
                  registry, patterns, i, parent, child, Cute_count,
                  Cute_noexec, Cute_mode_skip, Cute_data_test,
                  Cute_stat_units_run, Cute_stat_units_failed,
                  Cute_level_verbose, Cute_tap,
                  Cute_index_worker, index, cutestVars, execLog,
                  trace, how >>

\* the argument an option may carry: NULL (none given) or a string
NULL == [null |-> TRUE, str |-> << >>]
\* the arguments --verbose is given here: none, and "1"
VerboseArgs == { NULL, [null |-> FALSE, str |-> << "1" >>] }

\* atoi(): the decimal number a string starts with (0 when it starts with
\* none); the strings here carry no white space and no sign
atoi(s) ==
  LET digits == << "0", "1", "2", "3", "4", "5", "6", "7", "8", "9" >>
      isdigit(c) == \E d \in DOMAIN digits : digits[d] = c
      value(c) == (CHOOSE d \in DOMAIN digits : digits[d] = c) - 1
      RECURSIVE from(_, _)
      from(p, n) == IF p > Len(s) \/ ~isdigit(s[p]) THEN n
                    ELSE from(p + 1, 10 * n + value(s[p]))
  IN  from(1, 0)

\* case 'v': -v, --verbose[=LEVEL]
Cute_CallbackCmdline_v(arg) ==
  /\ engine = "cute" /\ pc = "cmdline" /\ argc < MaxArgs
  /\ argc' = argc + 1
  /\ Cute_level_verbose' =
       IF arg # NULL THEN atoi(arg.str) ELSE Cute_level_verbose + 1
  /\ UNCHANGED << caseAbort, out, stdout_buf, stdout_mode, xml, scan, events,
                  Cute_output_xml, ret, diag, notPassed, forced_noexec,
                  tracer_present, engine, registry, pc, patterns, i, parent,
                  child, inChild, exit_code, child_status, sigchld,
                  exit_status, Cute_count, Cute_noexec, Cute_mode_skip,
                  Cute_data_test, Cute_stat_units_run, Cute_stat_units_failed,
                  Cute_tap,
                  Cute_index_worker, index, cutestVars, execLog, trace, how >>

\* case 'q': -q, --quiet
Cute_CallbackCmdline_q ==
  /\ engine = "cute" /\ pc = "cmdline" /\ argc < MaxArgs
  /\ argc' = argc + 1
  /\ Cute_level_verbose' = 0
  /\ UNCHANGED << caseAbort, out, stdout_buf, stdout_mode, xml, scan, events,
                  Cute_output_xml, ret, diag, notPassed, forced_noexec,
                  tracer_present, engine, registry, pc, patterns, i, parent,
                  child, inChild, exit_code, child_status, sigchld,
                  exit_status, Cute_count, Cute_noexec, Cute_mode_skip,
                  Cute_data_test, Cute_stat_units_run, Cute_stat_units_failed,
                  Cute_tap,
                  Cute_index_worker, index, cutestVars, execLog, trace, how >>

\* case 'w': --worker=N, the option by which the Windows build starts its
\* worker processes (marked internal in the option table, line 1377); the
\* Unix build takes it as well
Cute_CallbackCmdline_w(arg) ==
  /\ engine = "cute" /\ pc = "cmdline" /\ argc < MaxArgs
  /\ argc' = argc + 1
  /\ parent' = [parent EXCEPT !.Cute_worker = 1]
  /\ Cute_index_worker' = atoi(arg.str)
  /\ UNCHANGED << caseAbort, out, stdout_buf, stdout_mode, xml, scan, events,
                  Cute_output_xml, ret, diag, notPassed, forced_noexec,
                  tracer_present, engine, registry, pc, patterns, i, child,
                  inChild, exit_code, child_status, sigchld, exit_status,
                  Cute_count, Cute_noexec, Cute_mode_skip, Cute_data_test,
                  Cute_stat_units_run, Cute_stat_units_failed,
                  Cute_level_verbose, Cute_tap, index, cutestVars, execLog,
                  trace, how >>

\* case 'l': -l, --list prints the names of the tests and calls Cute_Exit(0)
Cute_CallbackCmdline_l ==
  /\ engine = "cute" /\ pc = "cmdline" /\ argc < MaxArgs
  /\ argc' = argc + 1
  /\ RunnerExits(0)
  /\ UNCHANGED << caseAbort, out, stdout_buf, stdout_mode, xml, scan, events,
                  ret, diag, notPassed, engine, registry, patterns, i, parent,
                  child, cuteVars, cutestVars, execLog, trace, how >>

\* case 'h': -h, --help prints the help and calls Cute_Exit(0)
Cute_CallbackCmdline_h ==
  /\ engine = "cute" /\ pc = "cmdline" /\ argc < MaxArgs
  /\ argc' = argc + 1
  /\ RunnerExits(0)
  /\ UNCHANGED << caseAbort, out, stdout_buf, stdout_mode, xml, scan, events,
                  ret, diag, notPassed, engine, registry, patterns, i, parent,
                  child, cuteVars, cutestVars, execLog, trace, how >>

\* case CUTE_CMDLINE_OPTID_UNKNOWN: an option the program does not know
Cute_CallbackCmdline_UNKNOWN ==
  /\ engine = "cute" /\ pc = "cmdline" /\ argc < MaxArgs
  /\ argc' = argc + 1
  /\ RunnerExits(2)
  /\ UNCHANGED << caseAbort, out, stdout_buf, stdout_mode, xml, scan, events,
                  ret, diag, notPassed, engine, registry, patterns, i, parent,
                  child, cuteVars, cutestVars, execLog, trace, how >>

(***************************************************************************)
(* cute.h: main() after the command line (lines 1636-1681).                *)
(***************************************************************************)
\* tracer: a debugger traces the program; tty: stdout is a terminal, so that
\* stdio buffers it by line ("_IOLBF"), else by block ("_IOFBF")
Cute_main_Prepare(tracer, tty) ==
  /\ engine = "cute" /\ pc = "cmdline"
  /\ LET sel == DefaultSelection(
                  [data |-> Cute_data_test, count |-> Cute_count],
                  Cute_size_list)
     IN  /\ Cute_data_test' = sel.data
         /\ Cute_count' = sel.count
         /\ Cute_noexec' = GuessNoexec(Cute_noexec, sel.count, tracer)
         /\ forced_noexec' = Cute_noexec
         /\ tracer_present' = (TracerAsked(Cute_noexec, sel.count) /\ tracer)
  /\ Cute_level_verbose' =
       IF Cute_tap # 0 /\ Cute_level_verbose > 2 THEN 2 ELSE Cute_level_verbose
  /\ stdout_mode' = IF Cute_tap = 0 THEN stdout_mode
                     ELSE IF tty THEN "_IOLBF" ELSE "_IOFBF"
  /\ SetStdout(printf(Stdout, stdout_mode',
                      Cute_main_Plan(parent, Cute_count'), FALSE))
  /\ index' = Cute_index_worker
  /\ i' = 1
  /\ pc' = "loop"
  /\ UNCHANGED << caseAbort, xml, scan, events, Cute_output_xml, ret, diag,
                  notPassed, engine, registry, argc, patterns, parent, child,
                  inChild, exit_code, child_status, sigchld, exit_status,
                  Cute_mode_skip, Cute_stat_units_run, Cute_stat_units_failed,
                  Cute_tap, Cute_index_worker, cutestVars, execLog, trace,
                  how >>

\* lines 1684-1690: one iteration of the loop over the registry
Cute_main_Loop ==
  /\ engine = "cute" /\ pc = "loop"
  /\ IF i > Cute_size_list
     THEN pc' = "summary" /\ UNCHANGED << i, index, execLog >>
     ELSE IF ShouldRun(Cute_data_test[LoopEntry(i)], Cute_mode_skip)
     THEN /\ pc' = "unit"       \* Cute_RunUnit(&Cute_list_test[i], index++, i)
          /\ index' = index + 1
          /\ execLog' = Append(execLog, LoopEntry(i))
          /\ i' = i
     ELSE /\ i' = i + 1
          /\ UNCHANGED << pc, index, execLog >>
  /\ UNCHANGED << caseAbort, out, stdout_buf, stdout_mode, xml, scan, events,
                  Cute_output_xml, ret, diag, notPassed, forced_noexec,
                  tracer_present, engine, registry, argc, patterns, parent,
                  child, inChild, exit_code, child_status, sigchld,
                  exit_status, Cute_count, Cute_noexec, Cute_mode_skip,
                  Cute_data_test, Cute_stat_units_run, Cute_stat_units_failed,
                  Cute_level_verbose, Cute_tap, Cute_index_worker,
                  cutestVars, trace, how >>

\* lines 1692-1746: summary and return
Cute_main_Return ==
  /\ engine = "cute" /\ pc = "summary"
  /\ pc' = "done"
  /\ exit_status' = IF Cute_stat_units_failed = 0 THEN 0 ELSE 1
  /\ xml' = IF Cute_output_xml # 0 THEN << XmlReport >> ELSE xml
  /\ SetStdout(fflush(Stdout))       \* main() returns: exit() flushes
  /\ UNCHANGED << scan, events >>
  /\ UNCHANGED << caseAbort, stdout_mode, ret, diag, notPassed, engine,
                  registry, argc, patterns, i, parent, child, inChild,
                  exit_code, child_status, sigchld, cuteVars, cutestVars,
                  execLog, trace, how >>

(***************************************************************************)
(* cute.h: Execution Engine (Cute_RunUnit, Cute_RunTest).                  *)
(***************************************************************************)
\* mutant: the local `failed` starts as 0, so a unit nobody ran has passed
Cute_RunUnit_Entry_FailedUnset(g, test) ==
  [g EXCEPT !.failed = 0,
            !.Cute_currenttest = test,
            !.Cute_test_alreadylogged = 0]

\* Cute_RunUnit, lines 1025-1029: `int failed = 1;` and the two assignments
Cute_RunUnit_Entry(g, test) ==
  [g EXCEPT !.failed = 1,
            !.Cute_currenttest = test,
            !.Cute_test_alreadylogged = 0]

\* Cute_RunUnit, lines 1025-1052 and 1123-1125: entry, and fork() unless
\* child processes are suppressed.  forks: does fork() succeed
Cute_RunUnit_Begin(forks) ==
  /\ engine = "cute" /\ pc = "unit"
  /\ LET g == Cute_RunUnit_Entry(parent, LoopEntry(i))
     IN  IF Cute_noexec = 0
         THEN IF forks
              THEN /\ parent' = g
                   /\ child' = << [g EXCEPT !.Cute_worker = 1] >>
                   /\ inChild' = TRUE
                   /\ pc' = "enter"
                   /\ how' = "none"
              ELSE /\ parent' = g         \* Cannot fork: failed = 1
                   /\ pc' = "record"
                   /\ how' = "nofork"
                   /\ UNCHANGED << child, inChild >>
         ELSE /\ parent' = g
              /\ pc' = "enter"
              /\ how' = "none"
              /\ UNCHANGED << child, inChild >>
  /\ trace' = << >>
  /\ ret' = -1
  /\ diag' = "none"
  /\ exit_code' = NoStatus        \* the local exit_code is not yet set
  /\ child_status' = NoStatus
  /\ UNCHANGED sigchld
  /\ events' = LogFrom(Cute_RunUnit_Begin_Events)
  /\ SetStdout(IF Cute_noexec = 0 THEN fflush(Stdout) ELSE Stdout)
  /\ UNCHANGED << caseAbort, stdout_mode, xml, scan, notPassed, engine,
                  registry, argc, patterns, i, exit_status, cuteVars,
                  cutestVars, execLog >>

\* Cute_RunTest, lines 954-976: up to the call of the test function
Cute_RunTest_Enter ==
  /\ engine = "cute" /\ pc = "enter"
  /\ SetMe(Cute_RunTest_Entry(Me, LoopEntry(i), index - 1))
  /\ events' = Log(Cute_RunTest_Entry_Events(Me))
  /\ pc' = "body"
  /\ SetStdout(fflush(Stdout))       \* lines 965-966
  /\ UNCHANGED << caseAbort, stdout_mode, xml, scan, ret, diag, notPassed,
                  engine, registry, argc, patterns, i, inChild, exit_code,
                  child_status, sigchld, exit_status, cuteVars, cutestVars,
                  execLog, trace, how >>

\* the test body evaluates CUTE_CHECK(cond)
\* long: the text of the check is at least BUFSIZ bytes; Cute_Check prints it
\* (vprintf, line 658) when Cute_level_verbose >= verbose_level (617-629)
Body_CUTE_CHECK(cond, long) ==
  /\ engine = "cute" /\ pc = "body" /\ Len(trace) < MaxOps
  /\ SetMe(Cute_Check(Me, cond))
  /\ ret' = CheckResult(Cute_Check(Me, cond))
  /\ SetStdout(printf(Stdout, stdout_mode, Cute_Check_Output(Me, cond),
                      long /\ Cute_level_verbose >= (IF cond # 0 THEN 3
                                                                 ELSE 2)))
  /\ events' = Log(Cute_Check_Events(Me, cond))
  /\ diag' = "none"
  /\ trace' = Append(trace, cond)
  /\ UNCHANGED << stdout_mode, caseAbort, xml, scan, notPassed, engine,
                  registry, pc, argc, patterns, i, inChild, exit_code,
                  child_status, sigchld, exit_status, cuteVars, cutestVars,
                  execLog, how >>

\* what the body does after Cute_Abort() was called in process state g:
\* longjmp() lands in Cute_RunTest (setjmp returns 1, goto aborted); abort()
\* raises SIGABRT; "return" would continue the body
AfterAbort(g, reason) ==
  LET way == Cute_Abort(g)
  IN  IF way = "longjmp"
      THEN /\ SetMe([g EXCEPT !.Cute_wasaborted = 1])
           /\ pc' = "leave"
           /\ how' = reason
           /\ UNCHANGED << inChild, exit_code, child_status, sigchld,
                           exit_status >>
      ELSE IF way = "abort"
      THEN /\ SetMe(g)
           /\ how' = reason
           /\ ProcessKilled("SIGABRT")
      ELSE /\ SetMe(g)
           /\ how' = reason
           /\ UNCHANGED << pc, inChild, exit_code, child_status, sigchld,
                           exit_status >>

\* the test body evaluates CUTE_ASSERT(cond)
Body_CUTE_ASSERT(cond, long) ==
  /\ engine = "cute" /\ pc = "body" /\ Len(trace) < MaxOps
  /\ trace' = Append(trace, cond)
  /\ ret' = CheckResult(Cute_Check(Me, cond))
  /\ LET s == printf(Stdout, stdout_mode, Cute_Check_Output(Me, cond),
                      long /\ Cute_level_verbose >= (IF cond # 0 THEN 3
                                                                 ELSE 2))
         g == Cute_Check(Me, cond)
     IN  SetStdout(IF CheckResult(g) = 0 /\ Cute_Abort(g) = "abort"
                   THEN Killed(s) ELSE s)
  /\ diag' = "none"
  /\ LET g == Cute_Check(Me, cond)
     IN  IF CheckResult(g) = 0
         THEN AfterAbort(g, "assert")
         ELSE /\ SetMe(g)
              /\ UNCHANGED << pc, how, inChild, exit_code, child_status,
                              sigchld, exit_status >>
  /\ caseAbort' = IF cond = 0 /\ Me.Cute_casename # "" THEN 1 ELSE caseAbort
  /\ events' = Log(Cute_Check_Events(Me, cond)
                   \o (IF CheckResult(Cute_Check(Me, cond)) = 0
                       THEN Cute_Abort_Events(Cute_Check(Me, cond))
                       ELSE << >>))
  /\ UNCHANGED << stdout_mode, xml, scan, notPassed, engine, registry, argc,
                  patterns, i, cuteVars, cutestVars, execLog >>

\* the test body calls CUTE_CASE_FORMAT(fmt), that is Cute_Case(fmt)
Body_CUTE_CASE_FORMAT(fmt) ==
  /\ engine = "cute" /\ pc = "body"
  /\ SetMe(Cute_Case(Me, fmt))
  /\ diag' = "none"
  /\ UNCHANGED << caseAbort, out, stdout_buf, stdout_mode, xml, scan, events,
                  ret, notPassed, engine, registry, pc, argc, patterns, i,
                  inChild, exit_code, child_status, sigchld, exit_status,
                  cuteVars, cutestVars, execLog, trace, how >>

\* the test body calls Cute_Abort() itself
Body_Cute_Abort ==
  /\ engine = "cute" /\ pc = "body"
  /\ AfterAbort(Me, "abort")
  /\ events' = Log(Cute_Abort_Events(Me))
  /\ diag' = "none"
  /\ SetStdout(IF Cute_Abort(Me) = "abort" THEN Killed(Stdout) ELSE Stdout)
  /\ UNCHANGED << caseAbort, stdout_mode, xml, scan, ret, notPassed, engine,
                  registry, argc, patterns, i, cuteVars, cutestVars, execLog,
                  trace >>

\* the test body calls CUTE_MSG(...)
\* empty: the message formats to the empty string.  fills: with the
\* message, of at most CUTE_MSG_MAXSIZE bytes (line 717), the bytes in the
\* buffer reach BUFSIZ; printed with printf, lines 722-733
Body_CUTE_MSG(empty, fills) ==
  /\ engine = "cute" /\ pc = "body"
  /\ diag' = IF Cute_Message(Me, empty) THEN "MSG printed" ELSE "MSG silent"
  /\ SetStdout(printf(Stdout, stdout_mode, << >>,
                      fills /\ Cute_Message(Me, empty)))
  /\ UNCHANGED << caseAbort, stdout_mode, xml, scan, events,
                  ret, notPassed, engine, registry, pc, argc, patterns, i,
                  parent, child, inChild, exit_code, child_status, sigchld,
                  exit_status, cuteVars, cutestVars, execLog, trace, how >>

\* the test body calls CUTE_DUMP(...)
\* long: the dump is at least BUFSIZ bytes (16 bytes of data to the line,
\* lines 756-784)
Body_CUTE_DUMP(long) ==
  /\ engine = "cute" /\ pc = "body"
  /\ diag' = IF Cute_Dump(Me) THEN "DUMP printed" ELSE "DUMP silent"
  /\ SetStdout(printf(Stdout, stdout_mode, << >>, long /\ Cute_Dump(Me)))
  /\ UNCHANGED << caseAbort, stdout_mode, xml, scan, events,
                  ret, notPassed, engine, registry, pc, argc, patterns, i,
                  parent, child, inChild, exit_code, child_status, sigchld,
                  exit_status, cuteVars, cutestVars, execLog, trace, how >>

\* the test function returns
Body_Return ==
  /\ pc = "body"
  /\ pc' = "leave"
  /\ how' = "return"
  /\ diag' = "none"
  /\ UNCHANGED << caseAbort, out, stdout_buf, stdout_mode, xml, scan, events,
                  ret, notPassed, engine, registry, argc, patterns, i, parent,
                  child, inChild, exit_code, child_status, sigchld,
                  exit_status, cuteVars, cutestVars, execLog, trace >>

\* the test body crashes (a write through an invalid pointer): SIGSEGV
Body_Crash ==
  /\ pc = "body"
  /\ how' = "crash"
  /\ diag' = "none"
  /\ ProcessKilled("SIGSEGV")
  /\ SetStdout(Killed(Stdout))
  /\ UNCHANGED << caseAbort, stdout_mode, xml, scan, events, ret, notPassed,
                  engine, registry, argc, patterns, i, parent, child, cuteVars,
                  cutestVars, execLog, trace >>

\* the test body calls exit(code)
Body_Exit(code) ==
  /\ pc = "body"
  /\ how' = "exit"
  /\ diag' = "none"
  /\ ProcessExits(code)
  /\ SetStdout(fflush(Stdout))
  /\ UNCHANGED << caseAbort, stdout_mode, xml, scan, events, ret, notPassed,
                  engine, registry, argc, patterns, i, parent, child, cuteVars,
                  cutestVars, execLog, trace >>

\* Cute_RunTest, lines 978-1016, and the assignment of its result to `failed`
Cute_RunTest_Leave ==
  /\ engine = "cute" /\ pc = "leave"
  /\ LET g      == [Me EXCEPT !.Cute_abort_has_jmpbuf = 0]
         status == Cute_RunTest_Status(g)
     IN  SetMe([Cute_Case(g, "NULL") EXCEPT
                  !.Cute_currenttest = 0,
                  !.failed = IF status # 0 THEN 1 ELSE 0])
  /\ SetStdout(printf(Stdout, stdout_mode, Cute_RunTest_Output(Me),
                      FALSE))
  /\ events' = Log(Cute_RunTest_Exit_Events(Me))
  /\ pc' = IF inChild THEN "child_exit" ELSE "record"
  /\ UNCHANGED << stdout_mode, caseAbort, xml, scan, ret, diag, notPassed,
                  engine, registry, argc, patterns, i, inChild, exit_code,
                  child_status, sigchld, exit_status, cuteVars, cutestVars,
                  execLog, trace, how >>

\* Cute_RunUnit, line 1051: the child calls Cute_Exit(failed ? 1 : 0)
Cute_RunUnit_ChildExit ==
  /\ engine = "cute" /\ pc = "child_exit" /\ inChild
  /\ ChildEnds(Exited(IF Me.failed # 0 THEN 1 ELSE 0))
  /\ SetStdout(fflush(Stdout))       \* Cute_Exit() calls exit()
  /\ UNCHANGED << caseAbort, stdout_mode, xml, scan, events, ret, diag,
                  notPassed, engine, registry, argc, patterns, i, parent,
                  child, cuteVars, cutestVars, execLog, trace, how >>

\* Cute_RunUnit, lines 1054-1078: waitpid() has returned exit_code
Cute_RunUnit_Wait ==
  /\ engine = "cute" /\ pc = "waitpid" /\ ~inChild
  /\ parent' = [parent EXCEPT
                  !.failed = Cute_RunUnit_Analyze(parent.failed, exit_code)]
  /\ child' = << >>
  /\ pc' = "record"
  /\ UNCHANGED << caseAbort, out, stdout_buf, stdout_mode, xml, scan, events,
                  ret, diag, notPassed, engine, registry, argc, patterns, i,
                  inChild, exit_code, child_status, sigchld, exit_status,
                  cuteVars, cutestVars, execLog, trace, how >>

\* the body of the unit in progress returned and every condition it recorded
\* was true
BodyPassed == how = "return" /\ \A k \in DOMAIN trace : trace[k] # 0

\* the step of main()'s loop after Cute_RunUnit returned
LoopStep(k) == k + 1

\* Cute_RunUnit, lines 1127-1137: record the result; back in main()'s loop
Cute_RunUnit_End ==
  /\ engine = "cute" /\ pc = "record"
  /\ parent' = [parent EXCEPT !.Cute_currenttest = 0]
  /\ Cute_stat_units_run' = Cute_stat_units_run + 1
  /\ Cute_stat_units_failed' =
       IF parent.failed # 0 THEN Cute_stat_units_failed + 1
                            ELSE Cute_stat_units_failed
  /\ Cute_data_test' =
       Cute_SetSuccess(Cute_data_test, i, IF parent.failed # 0 THEN 0 ELSE 1)
  /\ i' = LoopStep(i)
  /\ pc' = "loop"
  /\ trace' = << >>
  /\ ret' = -1
  /\ notPassed' = IF BodyPassed THEN notPassed ELSE notPassed + 1
  /\ caseAbort' = IF caseAbort = 1 THEN 2 ELSE 0
  /\ events' = Log(Cute_RunUnit_End_Events)
  /\ exit_code' = NoStatus        \* Cute_RunUnit returns: its locals are gone
  /\ UNCHANGED << child_status, sigchld, out, stdout_buf, stdout_mode, xml,
                  scan, Cute_output_xml, diag, forced_noexec, tracer_present,
                  engine, registry, argc, patterns, child, inChild,
                  exit_status, Cute_count, Cute_noexec, Cute_mode_skip,
                  Cute_level_verbose, Cute_tap,
                  Cute_index_worker, index, cutestVars, execLog,
                  how >>

CuteNext ==
  \/ \E arg \in Patterns : Cute_CallbackCmdline_0(arg)
  \/ Cute_CallbackCmdline_s
  \/ \E arg \in ExecArgs : Cute_CallbackCmdline_e(arg)
  \/ Cute_CallbackCmdline_E
  \/ Cute_CallbackCmdline_l
  \/ Cute_CallbackCmdline_h
  \/ Cute_CallbackCmdline_UNKNOWN
  \/ \E arg \in VerboseArgs \ {NULL} : Cute_CallbackCmdline_w(arg)
  \/ \E tracer \in BOOLEAN, tty \in BOOLEAN : Cute_main_Prepare(tracer, tty)
  \/ Cute_main_Loop
  \/ \E forks \in BOOLEAN : Cute_RunUnit_Begin(forks)
  \/ Cute_RunTest_Enter
  \/ \E cond \in {0, 1}, long \in BOOLEAN : Body_CUTE_CHECK(cond, long)
  \/ \E cond \in {0, 1}, long \in BOOLEAN : Body_CUTE_ASSERT(cond, long)
  \/ Body_Cute_Abort
  \/ \E empty \in BOOLEAN, fills \in BOOLEAN : Body_CUTE_MSG(empty, fills)
  \/ \E long \in BOOLEAN : Body_CUTE_DUMP(long)
  \/ Cute_RunTest_Leave
  \/ Cute_RunUnit_ChildExit
  \/ Cute_RunUnit_Wait
  \/ Cute_RunUnit_End
  \/ Cute_main_Return

(***************************************************************************)
(* cutest.h: Condition Recorder and Execution Engine helpers.              *)
(***************************************************************************)
\* test_msg__(verbose_level, ...)
test_msg__(g, verbose_level) ==
  IF verbose_level > test_verbose_level__ THEN g
  ELSE [g EXCEPT !.test_current_already_logged__ = @ + 1]

\* test_check__(cond, ...): the new process state (return value: cond != 0)
test_check__(g, cond) ==
  LET verbose_level == IF cond # 0 THEN 3 ELSE 1
      g1 == IF cond # 0 THEN g
            ELSE [g EXCEPT !.test_current_failures__ = @ + 1]
  IN  test_msg__(g1, verbose_level)

\* test_check__, line 192: the value it returns
test_check_Result(cond) == IF cond # 0 THEN 1 ELSE 0

\* test_do_run__, lines 221-228
test_do_run_Entry(g, test) ==
  LET g1 == [g EXCEPT !.test_current_unit__ = test,
                      !.test_current_failures__ = 0,
                      !.test_current_already_logged__ = 0]
  IN  IF test_verbose_level__ >= 2
      THEN [g1 EXCEPT !.test_current_already_logged__ = @ + 1]
      ELSE g1

\* test_do_run__, line 257: the status it returns
test_do_run_Status(g) == IF g.test_current_failures__ = 0 THEN 0 ELSE -1

\* test_run__, lines 284-307: the parent's globals after it has reported
\* the child's end: test_msg__(1, ...) unless the child exited with 0 or 1
test_run_Report(g, w) ==
  IF WIFEXITED(w) /\ WEXITSTATUS(w) \in {0, 1} THEN g ELSE test_msg__(g, 1)

\* test_run__, lines 284-307: `failed` after the parent has analysed the
\* child's wait status
test_run_Analyze(failedIn, w) ==
  IF WIFEXITED(w)
  THEN CASE WEXITSTATUS(w) = 0 -> 0
         [] WEXITSTATUS(w) = 1 -> failedIn
         [] OTHER              -> failedIn
  ELSE IF WIFSIGNALED(w) THEN failedIn
  ELSE failedIn

\* main(), lines 432-455: which of the three loops runs
test_LoopKind ==
  IF Len(tests) = 0 THEN "all"
  ELSE IF test_skip_mode__ = 0 THEN "listed"
  ELSE "skip"

\* the test the current loop iteration is about
test_LoopEntry(k) == IF test_LoopKind = "listed" THEN tests[k] ELSE k

\* the test Cute_RunUnit / test_run__ is running
CurTest == IF engine = "cute" THEN LoopEntry(i) ELSE test_LoopEntry(i)

(***************************************************************************)
(* cutest.h: main().                                                       *)
(***************************************************************************)
\* lines 406-414: a test name
test_main_arg_name(arg) ==
  /\ engine = "cutest" /\ pc = "cmdline" /\ argc < MaxArgs
  /\ argc' = argc + 1
  /\ patterns' = Append(patterns, arg)
  /\ LET t == test_by_name__(registry, arg)
     IN  IF t = 0
         THEN RunnerExits(2) /\ tests' = tests
         ELSE /\ tests' = Append(tests, t)
              /\ UNCHANGED << pc, exit_status, exit_code, child_status,
                              sigchld, inChild >>
  /\ UNCHANGED << caseAbort, out, stdout_buf, stdout_mode, xml, scan, events,
                  ret, diag, notPassed, engine, registry, i, parent, child,
                  cuteVars, test_no_exec__, test_skip_mode__,
                  test_stat_run_units__, test_stat_failed_units__,
                  test_verbose_level__, execLog, trace, how >>

\* lines 397-398: --skip
test_main_arg_skip ==
  /\ engine = "cutest" /\ pc = "cmdline" /\ argc < MaxArgs
  /\ argc' = argc + 1
  /\ test_skip_mode__' = 1
  /\ UNCHANGED << caseAbort, out, stdout_buf, stdout_mode, xml, scan, events,
                  ret, diag, notPassed, engine, registry, pc, patterns, i,
                  parent, child, inChild, exit_code, child_status, sigchld,
                  exit_status, cuteVars, tests, test_no_exec__,
                  test_stat_run_units__, test_stat_failed_units__,
                  test_verbose_level__, execLog, trace, how >>

\* lines 399-400: --no-exec
test_main_arg_no_exec ==
  /\ engine = "cutest" /\ pc = "cmdline" /\ argc < MaxArgs
  /\ argc' = argc + 1
  /\ test_no_exec__' = 1
  /\ UNCHANGED << caseAbort, out, stdout_buf, stdout_mode, xml, scan, events,
                  ret, diag, notPassed, engine, registry, pc, patterns, i,
                  parent, child, inChild, exit_code, child_status, sigchld,
                  exit_status, cuteVars, tests, test_skip_mode__,
                  test_stat_run_units__, test_stat_failed_units__,
                  test_verbose_level__, execLog, trace, how >>

\* lines 393-396: -v, --verbose (arg = NULL) or --verbose=LEVEL
test_main_arg_verbose(arg) ==
  /\ engine = "cutest" /\ pc = "cmdline" /\ argc < MaxArgs
  /\ argc' = argc + 1
  /\ test_verbose_level__' =
       IF arg # NULL THEN atoi(arg.str) ELSE test_verbose_level__ + 1
  /\ UNCHANGED << caseAbort, out, stdout_buf, stdout_mode, xml, scan, events,
                  ret, diag, notPassed, engine, registry, pc, patterns, i,
                  parent, child, inChild, exit_code, child_status, sigchld,
                  exit_status, cuteVars, tests, test_no_exec__,
                  test_skip_mode__, test_stat_run_units__,
                  test_stat_failed_units__, execLog, trace, how >>

\* lines 390-392: -h, --help prints the help and calls exit(0)
test_main_arg_help ==
  /\ engine = "cutest" /\ pc = "cmdline" /\ argc < MaxArgs
  /\ argc' = argc + 1
  /\ RunnerExits(0)
  /\ UNCHANGED << caseAbort, out, stdout_buf, stdout_mode, xml, scan, events,
                  ret, diag, notPassed, engine, registry, patterns, i, parent,
                  child, cuteVars, cutestVars, execLog, trace, how >>

\* lines 403-405: -l, --list prints the names of the tests and calls exit(0)
test_main_arg_list ==
  /\ engine = "cutest" /\ pc = "cmdline" /\ argc < MaxArgs
  /\ argc' = argc + 1
  /\ RunnerExits(0)
  /\ UNCHANGED << caseAbort, out, stdout_buf, stdout_mode, xml, scan, events,
                  ret, diag, notPassed, engine, registry, patterns, i, parent,
                  child, cuteVars, cutestVars, execLog, trace, how >>

\* lines 415-419: an option the program does not know
test_main_arg_unknown ==
  /\ engine = "cutest" /\ pc = "cmdline" /\ argc < MaxArgs
  /\ argc' = argc + 1
  /\ RunnerExits(2)
  /\ UNCHANGED << caseAbort, out, stdout_buf, stdout_mode, xml, scan, events,
                  ret, diag, notPassed, engine, registry, patterns, i, parent,
                  child, cuteVars, cutestVars, execLog, trace, how >>

\* lines 426-432: the command line is read; enter one of the loops
test_main_Parsed ==
  /\ engine = "cutest" /\ pc = "cmdline"
  /\ i' = 1
  /\ pc' = "loop"
  /\ UNCHANGED << caseAbort, out, stdout_buf, stdout_mode, xml, scan, events,
                  ret, diag, notPassed, engine, registry, argc, patterns,
                  parent, child, inChild, exit_code, child_status, sigchld,
                  exit_status, cuteVars, cutestVars, execLog, trace, how >>

\* lines 432-455: one iteration of the loop that runs
test_main_Loop ==
  /\ engine = "cutest" /\ pc = "loop"
  /\ LET bound == IF test_LoopKind = "listed" THEN Len(tests)
                                              ELSE Len(registry)
         is_skipped == /\ test_LoopKind = "skip"
                       /\ \E j \in 1..Len(tests) : tests[j] = i
     IN  IF i > bound
         THEN pc' = "summary" /\ UNCHANGED << i, execLog >>
         ELSE IF ~is_skipped
         THEN /\ pc' = "unit"
              /\ execLog' = Append(execLog, test_LoopEntry(i))
              /\ i' = i
         ELSE /\ i' = i + 1
              /\ UNCHANGED << pc, execLog >>
  /\ UNCHANGED << caseAbort, out, stdout_buf, stdout_mode, xml, scan, events,
                  ret, diag, notPassed, engine, registry, argc, patterns,
                  parent, child, inChild, exit_code, child_status, sigchld,
                  exit_status, cuteVars, cutestVars, trace, how >>

\* lines 457-475: summary and return
test_main_Return ==
  /\ engine = "cutest" /\ pc = "summary"
  /\ pc' = "done"
  /\ exit_status' = IF test_stat_failed_units__ = 0 THEN 0 ELSE 1
  /\ UNCHANGED << caseAbort, out, stdout_buf, stdout_mode, xml, scan, events,
                  ret, diag, notPassed, engine, registry, argc, patterns, i,
                  parent, child, inChild, exit_code, child_status, sigchld,
                  cuteVars, cutestVars, execLog, trace, how >>

(***************************************************************************)
(* cutest.h: Execution Engine (test_run__, test_do_run__).                 *)
(***************************************************************************)
\* test_run__, lines 263-282 and 337-338
test_run_Begin(forks) ==
  /\ engine = "cutest" /\ pc = "unit"
  /\ LET g == [parent EXCEPT !.failed = 1,
                             !.test_current_unit__ = test_LoopEntry(i),
                             !.test_current_already_logged__ = 0]
     IN  IF test_no_exec__ = 0
         THEN IF forks
              THEN /\ parent' = g
                   /\ child' = << g >>
                   /\ inChild' = TRUE
                   /\ pc' = "enter"
                   /\ how' = "none"
              ELSE /\ parent' = test_msg__(g, 1)   \* "Cannot start ..."
                   /\ pc' = "record"
                   /\ how' = "nofork"
                   /\ UNCHANGED << child, inChild >>
         ELSE /\ parent' = g
              /\ pc' = "enter"
              /\ how' = "none"
              /\ UNCHANGED << child, inChild >>
  /\ trace' = << >>
  /\ ret' = -1
  /\ diag' = "none"
  /\ exit_code' = NoStatus        \* the local exit_code is not yet set
  /\ child_status' = NoStatus
  /\ UNCHANGED sigchld
  /\ UNCHANGED << caseAbort, out, stdout_buf, stdout_mode, xml, scan, events,
                  notPassed, engine, registry, argc, patterns, i, exit_status,
                  cuteVars, cutestVars, execLog >>

\* test_do_run__, lines 221-234: up to the call of the test function
test_do_run_Enter ==
  /\ engine = "cutest" /\ pc = "enter"
  /\ SetMe(test_do_run_Entry(Me, test_LoopEntry(i)))
  /\ pc' = "body"
  /\ UNCHANGED << caseAbort, out, stdout_buf, stdout_mode, xml, scan, events,
                  ret, diag, notPassed, engine, registry, argc, patterns, i,
                  inChild, exit_code, child_status, sigchld, exit_status,
                  cuteVars, cutestVars, execLog, trace, how >>

\* the test body evaluates TEST_CHECK(cond)
Body_TEST_CHECK(cond) ==
  /\ engine = "cutest" /\ pc = "body" /\ Len(trace) < MaxOps
  /\ SetMe(test_check__(Me, cond))
  /\ ret' = test_check_Result(cond)
  /\ diag' = "none"
  /\ trace' = Append(trace, cond)
  /\ UNCHANGED << caseAbort, out, stdout_buf, stdout_mode, xml, scan, events,
                  notPassed, engine, registry, pc, argc, patterns, i, inChild,
                  exit_code, child_status, sigchld, exit_status, cuteVars,
                  cutestVars, execLog, how >>

\* test_do_run__, lines 237-246 (C++ only): either catch clause
test_do_run_Catch(g) ==
  test_msg__([g EXCEPT !.test_current_failures__ = @ + 1], 1)

\* the test body throws a C++ exception that nothing in the body catches
\* (a program built as C++); test_do_run__ catches it around test->func()
Body_Throw ==
  /\ engine = "cutest" /\ pc = "body"
  /\ SetMe(test_do_run_Catch(Me))
  /\ pc' = "leave"
  /\ how' = "throw"
  /\ diag' = "none"
  /\ UNCHANGED << caseAbort, out, stdout_buf, stdout_mode, xml, scan, events,
                  ret, notPassed, engine, registry, argc, patterns, i, inChild,
                  exit_code, child_status, sigchld, exit_status, cuteVars,
                  cutestVars, execLog, trace >>

\* test_do_run__, lines 249-257, and the assignment of its result to `failed`
test_do_run_Leave ==
  /\ engine = "cutest" /\ pc = "leave"
  /\ LET g      == test_msg__(Me, 2)
         status == test_do_run_Status(g)
     IN  SetMe([g EXCEPT !.test_current_unit__ = 0,
                         !.failed = IF status # 0 THEN 1 ELSE 0])
  /\ pc' = IF inChild THEN "child_exit" ELSE "record"
  /\ UNCHANGED << caseAbort, out, stdout_buf, stdout_mode, xml, scan, events,
                  ret, diag, notPassed, engine, registry, argc, patterns, i,
                  inChild, exit_code, child_status, sigchld, exit_status,
                  cuteVars, cutestVars, execLog, trace, how >>

\* test_run__, line 281: the child calls exit(failed ? 1 : 0)
test_run_ChildExit ==
  /\ engine = "cutest" /\ pc = "child_exit" /\ inChild
  /\ ChildEnds(Exited(IF Me.failed # 0 THEN 1 ELSE 0))
  /\ UNCHANGED << caseAbort, out, stdout_buf, stdout_mode, xml, scan, events,
                  ret, diag, notPassed, engine, registry, argc, patterns, i,
                  parent, child, cuteVars, cutestVars, execLog, trace, how >>

\* test_run__, lines 283-307: waitpid() has returned exit_code
test_run_Wait ==
  /\ engine = "cutest" /\ pc = "waitpid" /\ ~inChild
  /\ parent' = [test_run_Report(parent, exit_code) EXCEPT
                  !.failed = test_run_Analyze(parent.failed, exit_code)]
  /\ child' = << >>
  /\ pc' = "record"
  /\ UNCHANGED << caseAbort, out, stdout_buf, stdout_mode, xml, scan, events,
                  ret, diag, notPassed, engine, registry, argc, patterns, i,
                  inChild, exit_code, child_status, sigchld, exit_status,
                  cuteVars, cutestVars, execLog, trace, how >>

\* test_run__, lines 341-345: count the unit; back in main()'s loop
test_run_End ==
  /\ engine = "cutest" /\ pc = "record"
  /\ parent' = [parent EXCEPT !.test_current_unit__ = 0]
  /\ test_stat_run_units__' = test_stat_run_units__ + 1
  /\ test_stat_failed_units__' =
       IF parent.failed # 0 THEN test_stat_failed_units__ + 1
                            ELSE test_stat_failed_units__
  /\ i' = i + 1
  /\ pc' = "loop"
  /\ trace' = << >>
  /\ ret' = -1
  /\ notPassed' = IF BodyPassed THEN notPassed ELSE notPassed + 1
  /\ exit_code' = NoStatus        \* test_run__ returns: its locals are gone
  /\ UNCHANGED << child_status, sigchld, caseAbort, out, stdout_buf,
                  stdout_mode, xml, scan, events, diag, engine, registry, argc,
                  patterns, child, inChild, exit_status, cuteVars, tests,
                  test_no_exec__, test_skip_mode__, test_verbose_level__,
                  execLog, how >>

CutestNext ==
  \/ \E arg \in Patterns : test_main_arg_name(arg)
  \/ test_main_arg_skip
  \/ test_main_arg_no_exec
  \/ test_main_arg_help
  \/ test_main_arg_list
  \/ test_main_arg_unknown
  \/ test_main_Parsed
  \/ test_main_Loop
  \/ \E forks \in BOOLEAN : test_run_Begin(forks)
  \/ test_do_run_Enter
  \/ \E cond \in {0, 1} : Body_TEST_CHECK(cond)
  \/ test_do_run_Leave
  \/ test_run_ChildExit
  \/ test_run_Wait
  \/ test_run_End
  \/ test_main_Return

BodyNext ==
  \/ Body_Return
  \/ Body_Crash
  \/ \E code \in BodyExitCodes : Body_Exit(code)

Next == CuteNext \/ CutestNext \/ BodyNext

Spec == Init /\ [][Next]_vars

\* the program is started with the default disposition of SIGCHLD
DflInit == Init /\ sigchld = "SIG_DFL"

SpecDfl == DflInit /\ [][Next]_vars

(***************************************************************************)
(* How the tests are run: a program built with either header, started      *)
(* with either disposition of SIGCHLD, that is given options (the          *)
(* execution policy, --skip) but no test names, so that the tests run are  *)
(* all the registered ones or (cute.h with --skip) none.                   *)
(***************************************************************************)
RunNext ==
  \/ Cute_CallbackCmdline_s
  \/ \E arg \in ExecArgs : Cute_CallbackCmdline_e(arg)
  \/ Cute_CallbackCmdline_E
  \/ \E arg \in VerboseArgs \ {NULL} : Cute_CallbackCmdline_w(arg)
  \/ \E tracer \in BOOLEAN, tty \in BOOLEAN : Cute_main_Prepare(tracer, tty)
  \/ Cute_main_Loop
  \/ \E forks \in BOOLEAN : Cute_RunUnit_Begin(forks)
  \/ Cute_RunTest_Enter
  \/ \E cond \in {0, 1}, long \in BOOLEAN : Body_CUTE_CHECK(cond, long)
  \/ \E cond \in {0, 1}, long \in BOOLEAN : Body_CUTE_ASSERT(cond, long)
  \/ Body_Cute_Abort
  \/ \E empty \in BOOLEAN, fills \in BOOLEAN : Body_CUTE_MSG(empty, fills)
  \/ \E long \in BOOLEAN : Body_CUTE_DUMP(long)
  \/ Cute_RunTest_Leave
  \/ Cute_RunUnit_ChildExit
  \/ Cute_RunUnit_Wait
  \/ Cute_RunUnit_End
  \/ Cute_main_Return
  \/ test_main_arg_skip
  \/ test_main_arg_no_exec
  \/ test_main_Parsed
  \/ test_main_Loop
  \/ \E forks \in BOOLEAN : test_run_Begin(forks)
  \/ test_do_run_Enter
  \/ \E cond \in {0, 1} : Body_TEST_CHECK(cond)
  \/ test_do_run_Leave
  \/ test_run_ChildExit
  \/ test_run_Wait
  \/ test_run_End
  \/ test_main_Return
  \/ BodyNext

SpecRun == Init /\ [][RunNext]_vars

(***************************************************************************)
(* The verbosity: a program built with either header that is given -v,     *)
(* --verbose=LEVEL, -q and --no-exec, and runs all its tests.              *)
(***************************************************************************)
VerboseNext ==
  \/ Cute_CallbackCmdline_E
  \/ \E arg \in VerboseArgs : Cute_CallbackCmdline_v(arg)
  \/ Cute_CallbackCmdline_q
  \/ \E arg \in VerboseArgs \ {NULL} : Cute_CallbackCmdline_w(arg)
  \/ \E tracer \in BOOLEAN, tty \in BOOLEAN : Cute_main_Prepare(tracer, tty)
  \/ Cute_main_Loop
  \/ \E forks \in BOOLEAN : Cute_RunUnit_Begin(forks)
  \/ Cute_RunTest_Enter
  \/ \E cond \in {0, 1}, long \in BOOLEAN : Body_CUTE_CHECK(cond, long)
  \/ \E cond \in {0, 1}, long \in BOOLEAN : Body_CUTE_ASSERT(cond, long)
  \/ Body_Cute_Abort
  \/ \E empty \in BOOLEAN, fills \in BOOLEAN : Body_CUTE_MSG(empty, fills)
  \/ \E long \in BOOLEAN : Body_CUTE_DUMP(long)
  \/ Cute_RunTest_Leave
  \/ Cute_RunUnit_ChildExit
  \/ Cute_RunUnit_Wait
  \/ Cute_RunUnit_End
  \/ Cute_main_Return
  \/ test_main_arg_no_exec
  \/ \E arg \in VerboseArgs : test_main_arg_verbose(arg)
  \/ test_main_Parsed
  \/ test_main_Loop
  \/ \E forks \in BOOLEAN : test_run_Begin(forks)
  \/ test_do_run_Enter
  \/ \E cond \in {0, 1} : Body_TEST_CHECK(cond)
  \/ test_do_run_Leave
  \/ test_run_ChildExit
  \/ test_run_Wait
  \/ test_run_End
  \/ test_main_Return
  \/ BodyNext

SpecVerbose == DflInit /\ [][VerboseNext]_vars

(***************************************************************************)
(* The Reporter's outputs: a program built with cute.h that may also be    *)
(* given --tap and --xml-output.                                           *)
(***************************************************************************)
ReportInit == Init /\ engine = "cute" /\ sigchld = "SIG_DFL"

ReportNext ==
  \/ Cute_CallbackCmdline_T
  \/ \E opens \in BOOLEAN : Cute_CallbackCmdline_x(opens)
  \/ \E arg \in Patterns : Cute_CallbackCmdline_0(arg)
  \/ Cute_CallbackCmdline_s
  \/ \E arg \in ExecArgs : Cute_CallbackCmdline_e(arg)
  \/ Cute_CallbackCmdline_E
  \/ \E arg \in VerboseArgs \ {NULL} : Cute_CallbackCmdline_w(arg)
  \/ \E tracer \in BOOLEAN, tty \in BOOLEAN : Cute_main_Prepare(tracer, tty)
  \/ Cute_main_Loop
  \/ \E forks \in BOOLEAN : Cute_RunUnit_Begin(forks)
  \/ Cute_RunTest_Enter
  \/ \E cond \in {0, 1}, long \in BOOLEAN : Body_CUTE_CHECK(cond, long)
  \/ \E cond \in {0, 1}, long \in BOOLEAN : Body_CUTE_ASSERT(cond, long)
  \/ Body_Cute_Abort
  \/ Cute_RunTest_Leave
  \/ Cute_RunUnit_ChildExit
  \/ Cute_RunUnit_Wait
  \/ Cute_RunUnit_End
  \/ Cute_main_Return
  \/ BodyNext

SpecReport == ReportInit /\ [][ReportNext]_vars

(***************************************************************************)
(* Named cases: a program built with cute.h whose test bodies also call    *)
(* CUTE_CASE_FORMAT, run with the execution policy guessed or forced.      *)
(***************************************************************************)
\* as ReportInit, with the history of each unit kept in `events`
CaseInit ==
  /\ engine = "cute"
  /\ registry \in Registries
  /\ sigchld = "SIG_DFL"
  /\ RunInit
  /\ scan = NoScan
  /\ events = << >>

CaseNext ==
  \/ \E arg \in ExecArgs : Cute_CallbackCmdline_e(arg)
  \/ Cute_CallbackCmdline_E
  \/ \E arg \in VerboseArgs \ {NULL} : Cute_CallbackCmdline_w(arg)
  \/ \E tracer \in BOOLEAN, tty \in BOOLEAN : Cute_main_Prepare(tracer, tty)
  \/ Cute_main_Loop
  \/ \E forks \in BOOLEAN : Cute_RunUnit_Begin(forks)
  \/ Cute_RunTest_Enter
  \/ \E fmt \in CaseNames : Body_CUTE_CASE_FORMAT(fmt)
  \/ \E cond \in {0, 1}, long \in BOOLEAN : Body_CUTE_CHECK(cond, long)
  \/ \E cond \in {0, 1}, long \in BOOLEAN : Body_CUTE_ASSERT(cond, long)
  \/ Body_Cute_Abort
  \/ Cute_RunTest_Leave
  \/ Cute_RunUnit_ChildExit
  \/ Cute_RunUnit_Wait
  \/ Cute_RunUnit_End
  \/ Cute_main_Return
  \/ BodyNext

SpecCase == CaseInit /\ [][CaseNext]_vars

(***************************************************************************)
(* The same runs under fairness.  The runner is one sequential process     *)
(* (and, in Isolated mode, one child it waits for): a statement of the     *)
(* engine that can be executed is executed.  That a test body ends is the  *)
(* assumption under which termination of the run is claimed.               *)
(***************************************************************************)
\* the engine's own statements, in the runner and in a child
CuteEngineNext ==
  \/ \E arg \in ExecArgs : Cute_CallbackCmdline_e(arg)
  \/ Cute_CallbackCmdline_E
  \/ \E arg \in VerboseArgs \ {NULL} : Cute_CallbackCmdline_w(arg)
  \/ \E tracer \in BOOLEAN, tty \in BOOLEAN : Cute_main_Prepare(tracer, tty)
  \/ Cute_main_Loop
  \/ \E forks \in BOOLEAN : Cute_RunUnit_Begin(forks)
  \/ Cute_RunTest_Enter
  \/ Cute_RunTest_Leave
  \/ Cute_RunUnit_ChildExit
  \/ Cute_RunUnit_Wait
  \/ Cute_RunUnit_End
  \/ Cute_main_Return

\* the ways a test body ends: it returns, aborts, or ends its process
CuteBodyEnds ==
  \/ Body_Return
  \/ Body_Cute_Abort
  \/ \E long \in BOOLEAN : Body_CUTE_ASSERT(0, long)
  \/ Body_Crash
  \/ \E code \in BodyExitCodes : Body_Exit(code)

SpecLive ==
  /\ CaseInit /\ [][CaseNext]_vars
  /\ WF_vars(CuteEngineNext) /\ WF_vars(CuteBodyEnds)

(***************************************************************************)
(* A program built with cutest.h as C++: a test body may also throw.       *)
(***************************************************************************)
CppInit == Init /\ engine = "cutest"

CppNext == CutestNext \/ BodyNext \/ Body_Throw

SpecCpp == CppInit /\ [][CppNext]_vars

(***************************************************************************)
(* Cute_ConfirmNameContainsWord(name, pattern) followed statement by       *)
(* statement, for every name and pattern up to a length, the empty pattern *)
(* included.  scan.substr is the position `substr` points at (0: NULL);    *)
(* positions 1..Len(name)+1 are the string `name` and its terminator.      *)
(***************************************************************************)
MaxNameLen    == 3
MaxPatternLen == 2
WordAlphabet  == { "a", "b", "_" }

RECURSIVE Strings(_, _)
Strings(alphabet, n) ==
  IF n = 0 THEN { << >> }
  ELSE LET shorter == Strings(alphabet, n - 1)
       IN  shorter \cup { Append(w, c) : w \in shorter, c \in alphabet }

WordNames    == Strings(WordAlphabet, MaxNameLen)
WordPatterns == Strings(WordAlphabet, MaxPatternLen)

runVars == << engine, registry, pc, argc, patterns, i, parent, child,
              inChild, exit_code, child_status, sigchld, exit_status,
              Cute_count, Cute_noexec, Cute_mode_skip, Cute_data_test,
              Cute_stat_units_run, Cute_stat_units_failed,
              Cute_level_verbose, Cute_tap, Cute_index_worker, index,
              tests, test_no_exec__, test_skip_mode__,
              test_stat_run_units__, test_stat_failed_units__,
              test_verbose_level__,
              forced_noexec, tracer_present,
              execLog, trace, how, ret, diag, notPassed, caseAbort,
              Cute_output_xml, out, stdout_buf, stdout_mode, xml, events >>

\* Cute_Lookup() calls the function on the name of a registered test and a
\* command-line argument; any string is a legal argument, "" included
WordInit ==
  /\ engine = "cute"
  /\ \E name \in WordNames, pattern \in WordPatterns :
       /\ registry = << name >>
       /\ scan = [ NoScan EXCEPT !.name = name, !.pattern = pattern,
                                 !.pc = "strstr" ]
  /\ sigchld = "SIG_DFL"
  /\ RunInit
  /\ events = NoLog

\* substr = strstr(name, pattern);
Word_strstr ==
  /\ scan.pc = "strstr"
  /\ scan' = [ scan EXCEPT !.substr = strstr(scan.name, 1, scan.pattern),
                           !.pc = "while" ]
  /\ UNCHANGED runVars

\* while(substr != NULL) { ...; if(starts && ends) return 1;   and, when
\* the loop is left, return 0.  Both reads are inside the string: substr is
\* at most Len(name)+1 here, and an occurrence ends at or before Len(name)
Word_while ==
  /\ scan.pc = "while"
  /\ LET name        == scan.name
         substr      == scan.substr
         pattern_len == Len(scan.pattern)
         starts_on_word_boundary ==
           substr = 1 \/ CharAt(name, substr - 1) \in word_delim
         ends_on_word_boundary ==
           \/ CharAt(name, substr + pattern_len) = NUL
           \/ CharAt(name, substr + pattern_len) \in word_delim
     IN  scan' =
           IF substr = 0
             THEN [ scan EXCEPT !.pc = "return", !.ret = 0 ]
           ELSE IF starts_on_word_boundary /\ ends_on_word_boundary
             THEN [ scan EXCEPT !.pc = "return", !.ret = 1 ]
           ELSE [ scan EXCEPT !.pc = "next" ]
  /\ UNCHANGED runVars

\* substr = strstr(substr+1, pattern);  with substr+1 inside the string
Word_next ==
  /\ scan.pc = "next"
  /\ scan.substr + 1 <= Len(scan.name) + 1
  /\ scan' = [ scan EXCEPT
                 !.substr = strstr(scan.name, scan.substr + 1, scan.pattern),
                 !.pc = "while" ]
  /\ UNCHANGED runVars

\* The outcomes of the scan once it has left the string.  strstr() returns
\* its first argument for an empty pattern, so substr[-1] is the terminator,
\* which strchr(word_delim, ...) finds at the end of word_delim, and
\* substr[pattern_len] is a byte that is not part of `name`: the loop goes
\* on over the bytes behind the string until it returns 1 or the read
\* faults.  NULL is never returned by strstr(), so 0 is not an outcome.
PastOutcomes == { "return 1", "SIGSEGV" }

\* substr = strstr(substr+1, pattern);  with substr on the terminator, which
\* only an empty pattern reaches: substr+1 is not a string (undefined)
Word_next_past ==
  /\ scan.pc = "next"
  /\ scan.substr + 1 > Len(scan.name) + 1
  /\ \E outcome \in PastOutcomes :
       scan' = IF outcome = "return 1"
                 THEN [ scan EXCEPT !.pc = "return", !.ret = 1,
                                    !.past = TRUE ]
                 ELSE [ scan EXCEPT !.pc = "killed", !.past = TRUE ]
  /\ UNCHANGED runVars

WordNext == Word_strstr \/ Word_while \/ Word_next \/ Word_next_past

SpecWord == WordInit /\ [][WordNext]_vars

(***************************************************************************)
(* Vocabulary of the properties.                                           *)
(***************************************************************************)
NTests     == Len(registry)
SkipMode   == IF engine = "cute" THEN Cute_mode_skip ELSE test_skip_mode__
\* Inline: tests are run in the runner itself; Isolated: in a forked child
Inline     == IF engine = "cute" THEN Cute_noexec = 1 ELSE test_no_exec__ = 1
Isolated   == IF engine = "cute" THEN Cute_noexec = 0 ELSE test_no_exec__ = 0
UnitsRun   == IF engine = "cute" THEN Cute_stat_units_run
                                 ELSE test_stat_run_units__
UnitsFailed == IF engine = "cute" THEN Cute_stat_units_failed
                                  ELSE test_stat_failed_units__
FailureCount(g) == IF engine = "cute" THEN g.Cute_testfailures
                                      ELSE g.test_current_failures__
\* main() has left its loop
Finished   == pc \in {"summary", "done"}
\* control is in main()'s loop, between two units, or after the loop
BetweenUnits == pc \in {"loop", "summary", "done"}

Ident(n)      == [k \in 1..n |-> k]
Range(seq)    == { seq[k] : k \in DOMAIN seq }
Last(seq)     == seq[Len(seq)]
Zeros(seq)    == Cardinality({ k \in DOMAIN seq : seq[k] = 0 })
IsPrefix(s, t) == Len(s) <= Len(t) /\ \A k \in DOMAIN s : s[k] = t[k]
NoDuplicates(seq) == \A x, y \in DOMAIN seq : x # y => seq[x] # seq[y]
StrictlyIncreasing(seq) == \A x, y \in DOMAIN seq : x < y => seq[x] < seq[y]

\* the tests marked "to run" (RunSelection)
Marked == { t \in 1..NTests : HasFlag(Cute_data_test[t], CUTE_FLAG_RUN) }

\* the effective list of tests of the run, read off the selection
EffectiveList ==
  LET InCute(t)   == (t \in Marked) # (Cute_mode_skip # 0)
      InCutest(t) == t \notin Range(tests)
  IN  IF engine = "cute" THEN SelectSeq(Ident(NTests), InCute)
      ELSE IF tests = << >> THEN Ident(NTests)
      ELSE IF test_skip_mode__ = 0 THEN tests
      ELSE SelectSeq(Ident(NTests), InCutest)

(***************************************************************************)
(* C1: a run given no test name or pattern, skip mode off, executes every  *)
(* registered test exactly once, in registration order: at every moment    *)
(* the tests executed so far are 1, 2, ..., and when main() leaves its     *)
(* loop they are all of the registry.                                      *)
(***************************************************************************)
C1_NoSelectionRunsAllInOrder ==
  (patterns = << >> /\ SkipMode = 0) =>
     /\ execLog = Ident(Len(execLog))
     /\ Finished => execLog = Ident(NTests)

C1_Witness ==
  /\ engine = "cute" /\ pc = "done"
  /\ patterns = << >> /\ SkipMode = 0
  /\ NTests = 3 /\ execLog = << 1, 2, 3 >>
  /\ Cute_stat_units_run = 3

(***************************************************************************)
(* C2: however an executed test ends (conditions passed or failed, fatal   *)
(* assertion, child crashed or killed), the run goes on with every later   *)
(* test of the effective list: the executed tests are always a prefix of   *)
(* that list and all of it when main() leaves the loop; the runner stops   *)
(* early only on a usage error, before any test, or when an Inline body    *)
(* crashes or exits the runner process itself; in every other state the    *)
(* runner has a next step.                                                 *)
(***************************************************************************)
C2_RunGoesOnAfterAnyOutcome ==
  [](/\ execLog # << >> => IsPrefix(execLog, EffectiveList)
     /\ Finished => execLog = EffectiveList
     /\ pc \in {"exited", "killed"} =>
          \/ execLog = << >> /\ exit_status = 2
          \/ Inline /\ how \in {"crash", "exit"}
     /\ pc \notin {"done", "exited", "killed"} =>
          (ENABLED BodyNext \/ ENABLED RunNext))

(***************************************************************************)
(* C3: while a body runs and when it returns, the failure count equals the *)
(* number of conditions recorded with a false value (execution goes on     *)
(* after a failed condition); a test whose body returned is classified     *)
(* Passed iff that number is zero and Failed otherwise.                    *)
(***************************************************************************)
C3_FailureCountIsFailedChecks ==
  [](/\ (pc \in {"body", "leave"} /\ how \in {"none", "return"}) =>
           FailureCount(Me) = Zeros(trace)
     /\ (engine = "cute" /\ pc = "leave" /\ how = "return") =>
           Cute_RunTest_Verdict(Me) =
             IF Zeros(trace) = 0 THEN "SUCCESS" ELSE "FAILED"
     /\ (pc = "record" /\ how = "return") =>
           parent.failed = IF Zeros(trace) = 0 THEN 0 ELSE 1)

(***************************************************************************)
(* C4: when a fatal assertion fails the rest of the body is abandoned: no  *)
(* further condition is recorded, the failure count is the number of       *)
(* failed conditions up to and including the fatal one, and the test is    *)
(* classified failed.                                                      *)
(***************************************************************************)
C4_FatalAssertionAbandonsBody ==
  how = "assert" =>
     /\ pc # "body"
     /\ pc \in {"leave", "waitpid", "record"} =>
          (trace # << >> /\ Last(trace) = 0)
     /\ pc = "leave" => /\ FailureCount(Me) = Zeros(trace)
                        /\ Me.Cute_wasaborted = 1
     /\ pc = "waitpid" => FailureCount(child[1]) = Zeros(trace)
     /\ pc = "record" => parent.failed = 1
     /\ BetweenUnits =>
          HasFlag(Cute_data_test[Last(execLog)], CUTE_FLAG_FAILURE)

(***************************************************************************)
(* C5: a body that ends in a failed fatal assertion gives the same         *)
(* recorded result Inline (longjmp) and Isolated (the child is aborted):   *)
(* the test is counted once as run and once as failed, its record is       *)
(* marked failed and not succeeded, and nothing was recorded after the     *)
(* abort point.                                                            *)
(***************************************************************************)
FailedTests ==
  { t \in 1..NTests : HasFlag(Cute_data_test[t], CUTE_FLAG_FAILURE) }

C5_Recorded(t) ==
  [ failure |-> HasFlag(Cute_data_test[t], CUTE_FLAG_FAILURE),
    success |-> HasFlag(Cute_data_test[t], CUTE_FLAG_SUCCESS),
    run     |-> Cute_stat_units_run = Len(execLog),
    counted |-> Cute_stat_units_failed = Cardinality(FailedTests) ]

C5_SameResult == [ failure |-> TRUE, success |-> FALSE, run |-> TRUE,
                   counted |-> TRUE ]

C5_AbortMechanicsAgree ==
  /\ (engine = "cute" /\ how = "assert" /\ pc = "record") =>
        /\ Inline   => (parent.failed = 1 /\ Last(trace) = 0)
        /\ Isolated => (parent.failed = 1 /\ Last(trace) = 0)
  /\ (engine = "cute" /\ how = "assert" /\ BetweenUnits) =>
        /\ Inline   => C5_Recorded(Last(execLog)) = C5_SameResult
        /\ Isolated => C5_Recorded(Last(execLog)) = C5_SameResult

(***************************************************************************)
(* C6: Inline, the test is classified after the body by the failure count  *)
(* and the aborted flag: Passed only if the count is zero and the test was *)
(* not aborted, Failed if the count is nonzero and it was not aborted, and *)
(* a test ended through Cute_Abort is Aborted and counted as failed.       *)
(***************************************************************************)
C6_InlineClassification ==
  (engine = "cute" /\ Inline /\ pc = "record" /\ how # "nofork") =>
     LET aborted == parent.Cute_wasaborted # 0
         count   == parent.Cute_testfailures
         verdict == Cute_RunTest_Verdict(parent)
     IN  /\ (parent.failed = 0 \/ verdict = "SUCCESS") =>
               (count = 0 /\ ~aborted)
         /\ (count # 0 /\ ~aborted) =>
               (parent.failed = 1 /\ verdict = "FAILED")
         /\ aborted => (parent.failed = 1 /\ verdict = "Aborted")

(***************************************************************************)
(* C7: Isolated, the parent classifies the child's end by the wait status  *)
(* alone: exit code 0 is Passed, exit code 1 is Failed, any other exit     *)
(* code or a signal is Crashed (an error is reported) and counts as a      *)
(* failed unit, whatever conditions the body recorded.                     *)
(***************************************************************************)
C7_Class(w) ==
  IF w = Exited(0) THEN "Passed"
  ELSE IF w = Exited(1) THEN "Failed"
  ELSE "Crashed"

C7_IsolatedByExitStatus ==
  /\ (Isolated /\ pc = "record" /\ how # "nofork") =>
        /\ parent.failed = IF C7_Class(child_status) = "Passed" THEN 0 ELSE 1
        /\ engine = "cute" =>
             (Cute_RunUnit_Error(exit_code) # "none"
                <=> C7_Class(child_status) = "Crashed")
  /\ (engine = "cute" /\ Isolated /\ BetweenUnits /\ execLog # << >>
        /\ how # "nofork") =>
        /\ HasFlag(Cute_data_test[Last(execLog)], CUTE_FLAG_FAILURE)
             <=> C7_Class(child_status) # "Passed"
        /\ HasFlag(Cute_data_test[Last(execLog)], CUTE_FLAG_SUCCESS)
             <=> C7_Class(child_status) = "Passed"
        /\ Cute_stat_units_failed = Cardinality(FailedTests)

(***************************************************************************)
(* C8: for a registered test t1, the run with `--skip t1` executes the     *)
(* registry minus t1 and the run with `t1` executes t1 alone: together     *)
(* the two executed sets are the registry, and they share no test.         *)
(***************************************************************************)
C8_SkipIsComplement ==
  \A t1 \in 1..NTests :
     (Finished /\ patterns = << registry[t1] >>) =>
        LET withT1   == { t1 }
            withSkip == (1..NTests) \ { t1 }
        IN  /\ SkipMode = 0 => Range(execLog) = withT1
            /\ SkipMode # 0 => Range(execLog) = withSkip
            /\ NoDuplicates(execLog)
            /\ withT1 \cup withSkip = 1..NTests
            /\ withT1 \cap withSkip = {}

C8_Witness ==
  /\ engine = "cute" /\ pc = "done"
  /\ NTests = 3 /\ patterns = << registry[2] >>
  /\ Cute_mode_skip = 1
  /\ execLog = << 1, 3 >>

(***************************************************************************)
(* C9: in cute.h the executed tests are in registration order, whatever    *)
(* the order of the names and patterns on the command line, in select      *)
(* mode and in skip mode.                                                  *)
(***************************************************************************)
C9_RegistrationOrder ==
  engine = "cute" => StrictlyIncreasing(execLog)

C9_Witness ==
  /\ engine = "cute" /\ pc = "done" /\ Cute_mode_skip = 0
  /\ NTests = 3
  /\ patterns = << registry[3], registry[1] >>
  /\ execLog = << 1, 3 >>

(***************************************************************************)
(* C10: marking is idempotent in cute.h: Cute_count is always the number   *)
(* of marked tests, also when a name is given twice or several patterns    *)
(* match the same test, and a test is executed at most once.               *)
(***************************************************************************)
C10_MarkingIdempotent ==
  engine = "cute" =>
     /\ Cute_count = Cardinality(Marked)
     /\ NoDuplicates(execLog)
     /\ (Finished /\ Cute_mode_skip = 0) => Range(execLog) = Marked

C10_Witness ==
  /\ engine = "cute" /\ pc = "done" /\ Cute_mode_skip = 0
  /\ NTests = 2
  /\ patterns = << registry[2], registry[2] >>
  /\ Cute_count = 1
  /\ execLog = << 2 >>

(***************************************************************************)
(* C11: in cutest.h the tests named on the command line (skip mode off)    *)
(* are executed in registration order and each exactly once, also when a   *)
(* name is given twice or the names are given in another order than the    *)
(* registry's.                                                             *)
(***************************************************************************)
C11_CutestListedInRegistrationOrder ==
  (engine = "cutest" /\ test_skip_mode__ = 0 /\ patterns # << >>) =>
     /\ StrictlyIncreasing(execLog)
     /\ NoDuplicates(execLog)
     /\ Finished => Range(execLog) = Range(tests)

(***************************************************************************)
(* C12: in cute.h a pattern equal to the full name of a registered test    *)
(* marks exactly that test, also when the pattern is a whole word or a     *)
(* substring of other registered names: after a command line made of full  *)
(* names only, the marked tests are exactly the named ones, Cute_count is  *)
(* their number and the run executes exactly them.                         *)
(***************************************************************************)
C12_NamedTests ==
  { t \in 1..NTests : \E k \in DOMAIN patterns : patterns[k] = registry[t] }

C12_ExactNameMarksOnlyThatTest ==
  (engine = "cute" /\ patterns # << >> /\ exit_status # 2
     /\ \A k \in DOMAIN patterns : patterns[k] \in Range(registry)) =>
        /\ Marked = C12_NamedTests
        /\ Cute_count = Cardinality(C12_NamedTests)
        /\ (Finished /\ Cute_mode_skip = 0) => Range(execLog) = C12_NamedTests

C12_Witness ==
  /\ engine = "cute" /\ pc = "done" /\ Cute_mode_skip = 0
  /\ registry = << <<"a", "_", "b">>, <<"a", "b">>, <<"a">> >>
  /\ patterns = << <<"a">> >>
  /\ Marked = { 3 } /\ Cute_count = 1
  /\ execLog = << 3 >>

(***************************************************************************)
(* C13: a pattern that matches no registered test under any of the three   *)
(* tiers is a usage error, exit status 2; a pattern that matches at least  *)
(* one test under some tier never is: a run that got past a pattern, got   *)
(* past one with a match, and a command line made of names and patterns    *)
(* only ends with status 2 only when its last one has no match.            *)
(***************************************************************************)
C13_AnyTierMatches(pattern) ==
  ExactMatches(registry, pattern) \cup WordMatches(registry, pattern)
    \cup RelaxedMatches(registry, pattern)

C13_UnmatchedPatternIsUsageError ==
  /\ \A k \in DOMAIN patterns :
        C13_AnyTierMatches(patterns[k]) = {} =>
           (pc = "exited" /\ exit_status = 2 /\ k = Len(patterns))
  /\ (exit_status = 2 /\ argc = Len(patterns)) =>
        C13_AnyTierMatches(Last(patterns)) = {}

(***************************************************************************)
(* C14: a usage error ends the run before testing starts: whenever the     *)
(* process ends with exit status 2 it has exited while reading the command *)
(* line,                                                                   *)
(* no test has been handed to the Execution Engine, no body has recorded   *)
(* anything, no child exists and the counters are 0, wherever the          *)
(* offending argument stands.                                              *)
(***************************************************************************)
C14_UsageErrorBeforeAnyTest ==
  exit_status = 2 =>
     /\ pc = "exited"
     /\ execLog = << >> /\ trace = << >> /\ how = "none"
     /\ UnitsRun = 0 /\ UnitsFailed = 0
     /\ child = << >> /\ ~inChild
     /\ engine = "cute" => \A t \in 1..NTests :
          /\ ~HasFlag(Cute_data_test[t], CUTE_FLAG_SUCCESS)
          /\ ~HasFlag(Cute_data_test[t], CUTE_FLAG_FAILURE)

(***************************************************************************)
(* C14, amended: a usage error ends the run before testing starts:         *)
(* whenever the engine ends the process with exit status 2 (the process    *)
(* did not end in exit() called by a test body), the process has exited    *)
(* while reading the command line, no test has been handed to the          *)
(* Execution Engine, no body has recorded anything, no child exists and    *)
(* the counters are 0, wherever the offending argument stands.  The hooks  *)
(* are called by Cute_RunTest (lines 961, 1012) and by Cute_Abort for the  *)
(* current test (line 823) only, that is after Cute_RunUnit was entered,   *)
(* which execLog records: with execLog empty no hook has run.              *)
(***************************************************************************)
C14_EngineExit2BeforeAnyTest ==
  (exit_status = 2 /\ how # "exit") =>
     /\ pc = "exited"
     /\ execLog = << >> /\ trace = << >> /\ how = "none"
     /\ UnitsRun = 0 /\ UnitsFailed = 0
     /\ child = << >> /\ ~inChild
     /\ engine = "cute" => \A t \in 1..NTests :
          /\ ~HasFlag(Cute_data_test[t], CUTE_FLAG_SUCCESS)
          /\ ~HasFlag(Cute_data_test[t], CUTE_FLAG_FAILURE)

C14_Witness ==
  /\ engine = "cute" /\ pc = "exited" /\ exit_status = 2 /\ how = "none"
  /\ argc = 2 /\ Len(patterns) = 2
  /\ patterns[1] = registry[1]
  /\ C13_AnyTierMatches(patterns[2]) = {}
  /\ Cute_count = 1 /\ Cute_stat_units_run = 0 /\ execLog = << >>

(***************************************************************************)
(* C15: when main() returns (no usage error), the exit status is 0 if      *)
(* every executed test passed and 1 if at least one executed test failed a *)
(* condition, was aborted or crashed; it is 0 exactly when unitsFailed is  *)
(* 0 at the end of the run.                                                *)
(***************************************************************************)
C15_ExitStatusReflectsOutcomes ==
  pc = "done" =>
     /\ exit_status \in {0, 1}
     /\ exit_status = 0 <=> UnitsFailed = 0
     /\ exit_status = 0 <=> notPassed = 0

(***************************************************************************)
(* C16: at every point of the run unitsRun is the number of tests whose    *)
(* execution has finished, unitsFailed is the number of those not          *)
(* classified Passed, and unitsFailed <= unitsRun <= registry size (both   *)
(* counters are lengths of histories that only grow, so they never         *)
(* decrease).                                                              *)
(***************************************************************************)
C16_FinishedUnits ==
  IF pc \in {"cmdline", "loop", "summary", "done"} \/ execLog = << >>
  THEN Len(execLog)
  ELSE Len(execLog) - 1

C16_CountersCountFinishedTests ==
  /\ UnitsRun = C16_FinishedUnits
  /\ engine = "cute"   => UnitsFailed = Cardinality(FailedTests)
  /\ engine = "cutest" => UnitsFailed = notPassed
  /\ UnitsFailed <= UnitsRun
  /\ UnitsRun <= NTests

(***************************************************************************)
(* C17: in cute.h, when the command line forces no policy, the run is      *)
(* Isolated exactly when more than one test will run and no debugger,      *)
(* tracer or memory checker is detected, and Inline when exactly one test  *)
(* will run or such a tool is detected, for every selection and either     *)
(* value of the skip flag.                                                 *)
(***************************************************************************)
C17_WillRun == Len(EffectiveList)

C17_AutoPolicyByTestsToRun ==
  (engine = "cute" /\ pc \notin {"cmdline", "exited"} /\ forced_noexec < 0) =>
     /\ Isolated <=> (C17_WillRun > 1 /\ ~tracer_present)
     /\ (C17_WillRun = 1 \/ tracer_present) => Inline

(***************************************************************************)
(* C18: in cute.h a policy forced on the command line (--exec,             *)
(* --exec=always, --exec=never, --no-exec, -E) is the policy of the run    *)
(* whatever the number of selected tests and whatever a tracer check would *)
(* find, and every test of the run is executed under it: in a forked child *)
(* iff Isolated was forced.                                                *)
(***************************************************************************)
C18_ForcedPolicyIsUsed ==
  (engine = "cute" /\ pc \notin {"cmdline", "exited"} /\ forced_noexec >= 0) =>
     /\ Cute_noexec = forced_noexec
     /\ ~tracer_present
     /\ pc \in {"enter", "body", "leave", "child_exit"} =>
          (inChild <=> forced_noexec = 0)
     /\ pc = "waitpid" => forced_noexec = 0

C18_Witness ==
  /\ engine = "cute" /\ pc = "body" /\ inChild
  /\ forced_noexec = 0 /\ Cute_noexec = 0
  /\ NTests = 1 /\ Cute_count = 1 /\ execLog = << 1 >>

(***************************************************************************)
(* C19: at verbosity 2 or higher CUTE_MSG and CUTE_DUMP print iff the most *)
(* recently recorded condition of the current test failed: nothing before  *)
(* the first condition of a test or after a passing condition, and a       *)
(* failed condition earlier in the test or in a previous test does not     *)
(* enable them.                                                            *)
(***************************************************************************)
C19_DiagnosticOnlyAfterFailedCondition ==
  (engine = "cute" /\ Cute_level_verbose >= 2 /\ diag # "none") =>
     /\ pc = "body"
     /\ diag \in {"MSG printed", "DUMP printed"}
          <=> (trace # << >> /\ Last(trace) = 0)
     /\ diag \in {"MSG silent", "DUMP silent"}
          <=> (trace = << >> \/ Last(trace) # 0)

(***************************************************************************)
(* C20: every call of the condition recorder (Cute_Check through           *)
(* CUTE_CHECK or CUTE_ASSERT, test_check__ through TEST_CHECK) returns     *)
(* non-zero iff the condition it was given was non-zero, adds exactly one  *)
(* to the failure count of the running test when the condition was zero    *)
(* and leaves that count as it was when the condition was non-zero.        *)
(***************************************************************************)
C20_CheckReturnsAndCounts ==
  [][ Len(trace') = Len(trace) + 1 =>
        LET cond   == Last(trace')
            before == FailureCount(Me)
            after  == IF inChild THEN FailureCount(child[1])'
                                 ELSE FailureCount(parent)'
        IN  /\ ret' \in {0, 1}
            /\ ret' # 0 <=> cond # 0
            /\ after = before + (IF cond = 0 THEN 1 ELSE 0) ]_vars

C20_Witness ==
  /\ pc = "body"
  /\ trace = << 1, 0 >>
  /\ ret = 0
  /\ FailureCount(Me) = 1

(***************************************************************************)
(* C21: in TAP mode every executed test produces exactly one result line,  *)
(* in execution order and numbered 1, 2, ... in that order; the line is    *)
(* "ok" iff the test passed (its body returned with every condition true)  *)
(* and "not ok" otherwise, whether it failed conditions, was aborted or    *)
(* crashed.                                                                *)
(***************************************************************************)
\* the lines stdout holds once the process has written its buffer
C21_Stream      == out \o stdout_buf
IsResultLine(l) == l.str \in {"ok", "not ok"}
ResultLines     == SelectSeq(C21_Stream, IsResultLine)

C21_TapOneLinePerTest ==
  (engine = "cute" /\ Cute_tap # 0) =>
     /\ Len(ResultLines) <= Len(execLog)
     /\ \A k \in DOMAIN ResultLines :
          ResultLines[k].n = k /\ ResultLines[k].test = execLog[k]
     /\ pc = "record" =>
          /\ Len(ResultLines) = Len(execLog)
          /\ Last(ResultLines).str = "ok" <=> BodyPassed
     /\ BetweenUnits => Len(ResultLines) = Len(execLog)

(***************************************************************************)
(* C22: in TAP mode the plan line "1..N" is written exactly once, before   *)
(* any result line, and N is the number of tests the run executes,         *)
(* whatever was selected and whether or not skip mode is on.               *)
(***************************************************************************)
IsPlanLine(l) == l.str = "1.."
PlanLines     == SelectSeq(C21_Stream, IsPlanLine)

C22_TapPlanCountsExecutedTests ==
  (engine = "cute" /\ Cute_tap # 0 /\ pc \notin {"cmdline", "exited"}) =>
     /\ Len(PlanLines) = 1
     /\ IsPlanLine(C21_Stream[1])
     /\ Finished => PlanLines[1].n = Len(execLog)

(***************************************************************************)
(* C23: the XML report has one testcase element per registered test, in    *)
(* registration order; a testcase has a failure element iff its test was   *)
(* executed and did not pass, and a skipped element iff its test was not   *)
(* executed; the attribute tests is the registry size, failures the number *)
(* of failure elements and skip the number of skipped elements.            *)
(***************************************************************************)
C23_Executed == { execLog[k] : k \in DOMAIN execLog }
C23_Failure  ==
  { t \in DOMAIN xml[1].testcase : xml[1].testcase[t].failure }
C23_Skipped  ==
  { t \in DOMAIN xml[1].testcase : xml[1].testcase[t].skipped }

C23_XmlReportMatchesRun ==
  (xml # << >>) =>
     /\ DOMAIN xml[1].testcase = 1..NTests
     /\ \A t \in 1..NTests : xml[1].testcase[t].name = registry[t]
     /\ C23_Skipped = (1..NTests) \ C23_Executed
     /\ C23_Failure \subseteq C23_Executed
     /\ Cardinality(C23_Failure) = notPassed
     /\ xml[1].tests = NTests
     /\ xml[1].failures = Cardinality(C23_Failure)
     /\ xml[1].skip = Cardinality(C23_Skipped)

(***************************************************************************)
(* C24: execution is sequential.  At most one test is in progress at any   *)
(* time; a child process exists only while its test is in progress, so     *)
(* there is at most one; and in Isolated mode the parent neither records   *)
(* the current test nor starts the next one before the child of the        *)
(* current test has terminated and waitpid() has returned its status.      *)
(***************************************************************************)
C24_InProgress == Len(execLog) - UnitsRun

C24_SequentialExecution ==
  /\ C24_InProgress \in {0, 1}
  /\ pc \in {"unit", "enter", "body", "leave", "child_exit", "waitpid",
             "record", "killed"} => C24_InProgress = 1
  /\ pc \in {"cmdline", "loop", "summary", "done"} => C24_InProgress = 0
  /\ Len(child) <= 1
  /\ inChild => child # << >> /\ pc \in {"enter", "body", "leave",
                                         "child_exit"}
  /\ pc = "waitpid" => child # << >> /\ ~inChild /\ exit_code # NoStatus
  /\ pc \in {"loop", "unit", "record", "summary", "done"} =>
       child = << >> /\ ~inChild
  /\ (pc = "record" /\ Isolated /\ how # "nofork") => exit_code # NoStatus

C24_Witness ==
  /\ pc = "record" /\ Isolated
  /\ Len(execLog) = 2 /\ UnitsRun = 1
  /\ WIFSIGNALED(exit_code)
  /\ child = << >>

(***************************************************************************)
(* C25: at the moment a test body starts (the step of Cute_RunTest that    *)
(* hands control to the test function) the RunState of the process that    *)
(* runs it is reset: failure count 0, last-condition-failed flag clear,    *)
(* aborted flag clear, case name empty, whatever the previous test did,    *)
(* a fatal assertion inside a named case included.                         *)
(***************************************************************************)
C25_RunStateResetAtBodyStart ==
  [][ (engine = "cute" /\ pc = "enter" /\ pc' = "body") =>
        LET g == IF inChild THEN child'[1] ELSE parent'
        IN  /\ g.Cute_testfailures = 0
            /\ g.Cute_failedcond = 0
            /\ g.Cute_wasaborted = 0
            /\ g.Cute_casename = "" ]_vars

C25_Witness ==
  /\ engine = "cute" /\ Inline /\ ~inChild
  /\ pc = "body" /\ trace = << >>
  /\ Len(execLog) = 2
  /\ caseAbort = 2
  /\ parent.Cute_testfailures = 0 /\ parent.Cute_failedcond = 0
  /\ parent.Cute_wasaborted = 0 /\ parent.Cute_casename = ""

(***************************************************************************)
(* C26: the outcome record of each test (Cute_data_test[t]) starts zeroed; *)
(* its result flags are written exactly once, when Cute_RunUnit records    *)
(* that test, and never for a test that is not executed; afterwards an     *)
(* executed test has exactly one of succeeded / failed set, a test that    *)
(* was not executed has neither, and no test ever has both.                *)
(***************************************************************************)
C26_Succeeded(data, t) == HasFlag(data[t], CUTE_FLAG_SUCCESS)
C26_Failed(data, t)    == HasFlag(data[t], CUTE_FLAG_FAILURE)
C26_Recorded == { execLog[k] : k \in 1..Cute_stat_units_run }

C26_OutcomeWrittenOnce ==
  /\ [](engine = "cute" =>
          /\ (pc = "cmdline" /\ argc = 0) =>
               \A t \in 1..NTests : Cute_data_test[t] = 0
          /\ \A t \in 1..NTests :
               /\ ~(C26_Succeeded(Cute_data_test, t)
                     /\ C26_Failed(Cute_data_test, t))
               /\ (C26_Succeeded(Cute_data_test, t)
                     \/ C26_Failed(Cute_data_test, t)) <=> t \in C26_Recorded)
  /\ [][ engine = "cute" =>
           \A t \in 1..NTests :
             ( \/ C26_Succeeded(Cute_data_test', t)
                    # C26_Succeeded(Cute_data_test, t)
               \/ C26_Failed(Cute_data_test', t)
                    # C26_Failed(Cute_data_test, t) ) =>
               /\ pc = "record" /\ t = i /\ t = Last(execLog)
               /\ ~C26_Succeeded(Cute_data_test, t)
               /\ ~C26_Failed(Cute_data_test, t) ]_vars

C26_Witness ==
  /\ engine = "cute" /\ pc = "done"
  /\ NTests = 3
  /\ Cute_data_test = << CUTE_FLAG_RUN + CUTE_FLAG_SUCCESS,
                         CUTE_FLAG_RUN + CUTE_FLAG_FAILURE, 0 >>

(***************************************************************************)
(* C27: in cutest.h built as C++ an exception that escapes a test body is  *)
(* caught once in test_do_run__: the step adds exactly one to the failure  *)
(* count of the test and control stays in test_do_run__; the test is then  *)
(* classified failed, and the exception never ends the process that runs   *)
(* the test: the run goes on to the next test.                             *)
(***************************************************************************)
C27_ExceptionIsOneFailure ==
  /\ [][ (pc = "body" /\ how' = "throw") =>
           LET before == FailureCount(Me)
               after  == IF inChild THEN FailureCount(child[1])'
                                    ELSE FailureCount(parent)'
           IN  /\ after = before + 1
               /\ pc' = "leave"
               /\ inChild' = inChild ]_vars
  /\ [](how = "throw" =>
          /\ pc \notin {"killed", "exited", "body", "enter"}
          /\ pc = "record" => parent.failed # 0
          /\ pc \in {"loop", "unit", "summary", "done"} =>
               /\ test_stat_run_units__ = Len(execLog) - (IF pc = "unit"
                                                          THEN 1 ELSE 0)
               /\ test_stat_failed_units__ >= 1)

(***************************************************************************)
(* C29: Cute_Lookup(pattern) marks exactly the tests that match under the  *)
(* first of the tiers exact name, whole word, substring that has a match,  *)
(* and returns their number (0, a usage error, when no tier has one); a    *)
(* test that matches only under a looser tier is not marked.  The tiers    *)
(* are stated here on the names themselves: equal to the pattern; the      *)
(* pattern occurs with a string edge or a delimiter on either side; the    *)
(* pattern occurs.                                                         *)
(***************************************************************************)
C29_Delimiters == { " ", "\t", "-", "_", "/", ".", ",", ":", ";" }
C29_OccursAt(name, p, pos) ==
  /\ pos + Len(p) - 1 <= Len(name)
  /\ \A k \in 1..Len(p) : name[pos + k - 1] = p[k]
C29_WordAt(name, p, pos) ==
  /\ C29_OccursAt(name, p, pos)
  /\ pos = 1 \/ name[pos - 1] \in C29_Delimiters
  /\ pos + Len(p) - 1 = Len(name) \/ name[pos + Len(p)] \in C29_Delimiters
C29_Exact(p)     == { t \in 1..NTests : registry[t] = p }
C29_Word(p)      ==
  { t \in 1..NTests :
      \E pos \in 1..Len(registry[t]) : C29_WordAt(registry[t], p, pos) }
C29_Substring(p) ==
  { t \in 1..NTests :
      \E pos \in 1..Len(registry[t]) : C29_OccursAt(registry[t], p, pos) }
C29_FirstTier(p) ==
  LET exact == C29_Exact(p)
      word  == C29_Word(p)
  IN  IF exact # {} THEN exact
      ELSE IF word # {} THEN word
      ELSE C29_Substring(p)

C29_LookupMarksFirstMatchingTier ==
  (engine = "cute" /\ patterns # << >>) =>
     LET tier == [k \in DOMAIN patterns |-> C29_FirstTier(patterns[k])]
     IN  /\ (\E k \in DOMAIN patterns : tier[k] = {}) =>
              pc = "exited" /\ exit_status = 2
         /\ (\A k \in DOMAIN patterns : tier[k] # {}) =>
              /\ Marked = UNION { tier[k] : k \in DOMAIN patterns }
              /\ Len(patterns) = 1 => Cute_count = Cardinality(tier[1])

C29_Witness ==
  /\ engine = "cute" /\ pc = "done" /\ Cute_mode_skip = 0
  /\ registry = << <<"a", "_", "b">>, <<"a", "b">> >>
  /\ patterns = << <<"b">> >>
  /\ Marked = { 1 } /\ Cute_count = 1
  /\ execLog = << 1 >>

(***************************************************************************)
(* C28: in cute.h skip mode executes the complement of the selected set,   *)
(* the tests the names and patterns of the command line resolve to, for    *)
(* every selection, the empty one included: `--skip` with no name executes *)
(* every registered test.                                                  *)
(***************************************************************************)
C28_Selected ==
  UNION { C29_FirstTier(patterns[k]) : k \in DOMAIN patterns }

C28_SkipExecutesComplement ==
  (engine = "cute" /\ Finished /\ Cute_mode_skip # 0) =>
     /\ Range(execLog) = (1..NTests) \ C28_Selected
     /\ patterns = << >> => execLog = Ident(NTests)

(***************************************************************************)
(* C30.  Cute_ConfirmNameContainsWord(name, pattern) returns, and returns  *)
(* true exactly when some occurrence of pattern in name (any occurrence,   *)
(* overlapping ones included) has the edge of name or a delimiter          *)
(* immediately before it and immediately after it.                         *)
(***************************************************************************)
C30_WholeWord(name, pattern) ==
  \E pos \in 1..(Len(name) + 1) : C29_WordAt(name, pattern, pos)

C30_ScanFindsWholeWord ==
  scan.pc \in { "return", "killed" } =>
     /\ scan.pc = "return"
     /\ scan.ret = 1 <=> C30_WholeWord(scan.name, scan.pattern)

(***************************************************************************)
(* C39.  For every name and every pattern, the empty pattern included,     *)
(* the whole-word scan of Cute_ConfirmNameContainsWord terminates (it      *)
(* returns; it is not killed) and reads only positions inside the name,    *)
(* terminator included: substr never points behind the terminator.         *)
(***************************************************************************)
C39_ScanStaysInsideName ==
  /\ scan.pc # "killed"
  /\ ~scan.past
  /\ scan.substr \in 0..(Len(scan.name) + 1)
  /\ scan.pc = "next" => ENABLED Word_next

(***************************************************************************)
(* C35.  After the run completes, in select mode and in skip mode, the     *)
(* `ran` flag (CUTE_FLAG_RUN) of a test's record is set if and only if     *)
(* that test was executed.                                                 *)
(***************************************************************************)
C35_Ran(t) == HasFlag(Cute_data_test[t], CUTE_FLAG_RUN)

C35_RanFlagIffExecuted ==
  (engine = "cute" /\ Finished) =>
     \A t \in 1..NTests : C35_Ran(t) <=> t \in Range(execLog)

(***************************************************************************)
(* C36.  In Isolated mode a child process executes exactly one test and    *)
(* then terminates.  While control is in the child, no step returns into   *)
(* the coordinator's loop, starts another test, forks again, or changes    *)
(* the parent's state, its counters or the outcome records; the step that  *)
(* ends the child hands a wait status to the parent's waitpid().           *)
(***************************************************************************)
C36_ChildPositions == { "enter", "body", "leave", "child_exit" }

C36_ChildRunsOneTestAndEnds ==
  [][ inChild =>
        /\ Isolated /\ pc \in C36_ChildPositions
        /\ parent' = parent
        /\ UNCHANGED << i, index, execLog, Cute_data_test, Cute_stat_units_run,
                        Cute_stat_units_failed, test_stat_run_units__,
                        test_stat_failed_units__ >>
        /\ Len(child') = 1
        /\ pc' # pc => pc' \notin { "enter", "unit", "loop", "record" }
        /\ IF inChild'
             THEN pc' \in C36_ChildPositions /\ exit_code' = NoStatus
             ELSE pc' = "waitpid" /\ exit_code' # NoStatus
    ]_vars

C36_Witness ==
  /\ engine = "cute" /\ pc = "waitpid" /\ ~inChild
  /\ WIFEXITED(exit_code) /\ WEXITSTATUS(exit_code) = 1
  /\ Len(execLog) = 2 /\ Cute_stat_units_run = 1
  /\ child # << >> /\ child[1].Cute_testfailures > 0
  /\ parent.Cute_testfailures = 0

(***************************************************************************)
(* C37.  If the child process of a test cannot be created (fork() fails)   *)
(* the test body is not executed, the test is recorded as run and failed   *)
(* (units run and units failed each increase by one; with cute.h the       *)
(* record's failed flag is set and its succeeded flag is not), and the     *)
(* run continues with the next entry of the loop.                          *)
(***************************************************************************)
C37_ForkFailed == pc = "record" /\ how = "nofork"

C37_ForkFailureIsAFailedTest ==
  [][ C37_ForkFailed =>
        /\ Isolated /\ ~inChild /\ child = << >>
        /\ trace = << >> /\ ret = -1 /\ exit_code = NoStatus
        /\ UnitsRun' = UnitsRun + 1
        /\ UnitsFailed' = UnitsFailed + 1
        /\ engine = "cute" =>
             /\ C26_Failed(Cute_data_test', i)
             /\ ~C26_Succeeded(Cute_data_test', i)
        /\ pc' = "loop" /\ i' = i + 1
        /\ exit_status' = -1
    ]_vars

C37_Witness ==
  /\ C37_ForkFailed
  /\ Len(execLog) = 2 /\ UnitsRun = 1 /\ UnitsFailed = 0
  /\ Len(registry) = 3

(***************************************************************************)
(* C31.  For each executed test the entry actions happen in this order,    *)
(* all before the test body starts: the reset of RunState, the pre-test    *)
(* hook (Cute_Initialize), the Reporter's test-starting event              *)
(* (Cute_BeginTestLine), the start of the duration timer (the timer of     *)
(* Cute_RunTest, whose difference the Reporter prints).  Each happens      *)
(* once per test.                                                          *)
(***************************************************************************)
EventAt(e) == { k \in DOMAIN events : events[k] = e }
Once(e)    == Cardinality(EventAt(e)) = 1
Where(e)   == CHOOSE k \in EventAt(e) : \A j \in EventAt(e) : k <= j
\* the body of the unit in progress has been entered
BodyEntered ==
  \/ pc \in { "body", "leave", "child_exit", "waitpid" }
  \/ pc = "record" /\ how # "nofork"

C31_EntryActionsInOrder ==
  (engine = "cute" /\ BodyEntered) =>
     /\ Once("reset") /\ Once("Cute_Initialize")
     /\ Once("Cute_BeginTestLine") /\ Once("Cute_start_timer")
     /\ Once("func")
     /\ Where("reset") < Where("Cute_Initialize")
     /\ Where("Cute_Initialize") < Where("Cute_BeginTestLine")
     /\ Where("Cute_BeginTestLine") < Where("Cute_start_timer")
     /\ Where("Cute_start_timer") < Where("func")

C31_Witness ==
  /\ engine = "cute" /\ pc = "body" /\ inChild
  /\ Len(execLog) = 2
  /\ events = << "start", "reset", "Cute_Initialize", "Cute_BeginTestLine",
                 "Cute_start_timer", "func" >>

(***************************************************************************)
(* C32.  For each executed test (here: whose body returned) the exit       *)
(* actions happen in this order after the body ends: the timer is stopped, *)
(* the post-test hook runs (Cute_Uninitialize), the Reporter's             *)
(* test-finished event is emitted (Cute_FinishTestLine), the test's        *)
(* TestOutcome record is updated (Cute_SetSuccess), AggregateStats is      *)
(* updated (Cute_stat_units_run++).                                        *)
(***************************************************************************)
\* the unit whose body was entered last has been recorded
UnitRecorded == pc = "loop" /\ EventAt("func") # {} /\ EventAt("end") # {}

C32_ExitActionsInOrder ==
  (engine = "cute" /\ UnitRecorded /\ how = "return") =>
     /\ Once("Cute_end_timer") /\ Once("Cute_Uninitialize")
     /\ Once("Cute_FinishTestLine")
     /\ Once("Cute_SetSuccess") /\ Once("Cute_stat_units_run++")
     /\ Where("func") < Where("Cute_end_timer")
     /\ Where("Cute_end_timer") < Where("Cute_Uninitialize")
     /\ Where("Cute_Uninitialize") < Where("Cute_FinishTestLine")
     /\ Where("Cute_FinishTestLine") < Where("Cute_SetSuccess")
     /\ Where("Cute_SetSuccess") < Where("Cute_stat_units_run++")

(***************************************************************************)
(* C33.  For every executed test whose body returns or ends by a failed    *)
(* fatal assertion, in Inline and in Isolated mode alike, the pre-test     *)
(* hook (CUTE_INIT, called by Cute_Initialize) runs exactly once before    *)
(* the body, and the post-test hook (CUTE_FINI, called by                  *)
(* Cute_Uninitialize) runs exactly once after it; while the body runs the  *)
(* post-test hook has not run.                                             *)
(***************************************************************************)
\* the process that ran the body is past Cute_RunTest, or was ended
BodyOver == pc \in { "child_exit", "waitpid", "record" } \/ UnitRecorded

C33_HooksRunOnceAroundBody ==
  /\ (engine = "cute" /\ pc = "body") =>
        /\ Once("Cute_Initialize")
        /\ Where("Cute_Initialize") < Where("func")
        /\ EventAt("Cute_Uninitialize") = {}
  /\ (engine = "cute" /\ how \in { "return", "assert" } /\ BodyOver) =>
        /\ Once("Cute_Initialize") /\ Once("Cute_Uninitialize")
        /\ Where("Cute_Initialize") < Where("func")
        /\ Where("func") < Where("Cute_Uninitialize")

C33_Witness ==
  /\ engine = "cute" /\ how = "assert" /\ pc = "waitpid"
  /\ WIFSIGNALED(exit_code)
  /\ Len(events) >= 2
  /\ events[Len(events)] = "abort"
  /\ events[Len(events) - 1] = "Cute_Uninitialize"

(***************************************************************************)
(* C38.  The jump target of the Abort Channel is armed                     *)
(* (Cute_abort_has_jmpbuf = 1) exactly while an Inline test body is        *)
(* executing (from the setjmp before the call of the test function to the  *)
(* statement after it): it is clear during the pre-test and post-test      *)
(* hooks, between tests, in the Isolated parent and in every child, so     *)
(* Cute_Abort() called anywhere outside an Inline test body ends the       *)
(* process instead of jumping.                                             *)
(***************************************************************************)
C38_Armed(g) == g.Cute_abort_has_jmpbuf # 0
\* the entries of the log made while the jump buffer was armed
C38_ArmedWindow ==
  IF EventAt("has_jmpbuf = 1") = {} THEN {}
  ELSE { k \in DOMAIN events :
           /\ Where("has_jmpbuf = 1") < k
           /\ EventAt("has_jmpbuf = 0") # {} => k < Where("has_jmpbuf = 0") }
C38_Hooks == EventAt("Cute_Initialize") \cup EventAt("Cute_Uninitialize")
\* the runner is alive and in a test body, or at the statement behind it
C38_InInlineBody == Inline /\ ~inChild /\ pc \in { "body", "leave" }

C38_ArmedOnlyInInlineBody ==
  engine = "cute" =>
     /\ pc \notin { "exited", "killed" } =>
          (C38_Armed(parent) <=> C38_InInlineBody)
     /\ child # << >> => ~C38_Armed(child[1])
     /\ Isolated => ~C38_Armed(parent)
     /\ C38_Hooks \cap C38_ArmedWindow = {}
     /\ (pc = "body" /\ Inline) => Cute_Abort(Me) = "longjmp"
     /\ (pc \notin { "exited", "killed" } /\ ~C38_InInlineBody) =>
          Cute_Abort(Me) = "abort"

(***************************************************************************)
(* C34.  The engine enforces no timeout.  If every executed test body      *)
(* eventually terminates (fairness of CuteBodyEnds) the run eventually     *)
(* ends, and when main() returns every test of the effective list has      *)
(* been executed and recorded; the runner ends earlier only by a usage     *)
(* error or because an Inline body crashed or called exit().  While a test *)
(* body is running no statement of the engine can be executed: a body that *)
(* never ends keeps the run in the body (Inline), or the parent in         *)
(* waitpid() (Isolated), forever.                                          *)
(***************************************************************************)
C34_RunOver == pc \in { "done", "exited", "killed" }

C34_NoTimeoutRunEndsIffBodiesEnd ==
  /\ <>C34_RunOver
  /\ [](pc = "done" =>
          /\ execLog = EffectiveList
          /\ Cute_stat_units_run = Len(EffectiveList)
          /\ \A t \in Range(execLog) :
               C26_Succeeded(Cute_data_test, t) # C26_Failed(Cute_data_test,
               t))
  /\ [](pc \in { "exited", "killed" } =>
          \/ execLog = << >> /\ exit_status = 2
          \/ Inline /\ how \in { "crash", "exit" })
  /\ [](pc = "body" =>
          /\ ~ENABLED CuteEngineNext
          /\ inChild => ~ENABLED Cute_RunUnit_Wait)

====
